---- MODULE Spec2Model ----
(***************************************************************************)
(* LinedUp notification service: the recurring-appointment extender, the   *)
(* OTP store, the verified-phone tickets and the password-reset handler.   *)
(*                                                                         *)
(* Time.  A JavaScript Date is modelled as an integer number of hours      *)
(* since the model epoch, hour 0 being a Sunday 00:00 UTC.  Date strings   *)
(* 'YYYY-MM-DD' are modelled as integer day numbers (day 0 = that Sunday). *)
(* The process runs with TZ = Asia/Jerusalem: local time is UTC+2, and     *)
(* UTC+3 from the hour dstStart on.  Every comparison the extender makes   *)
(* between Dates has both sides on the same minute or one side on a whole  *)
(* hour, so the hour is exact for it.                                      *)
(***************************************************************************)
EXTENDS Integers, Sequences, FiniteSets, TLC

\* a null date column (date strings are day numbers, never negative)
NoDate == 0 - 1

-----------------------------------------------------------------------------
(* Bounds of the model *)

\* hours the clock may advance after the start, in winter
MaxHours == 400
\* the same, across the seasons
MaxEnvHours == 130
\* the same, in the behaviours that meet data-store errors
MaxErrHours == 2
\* data-store errors met in one such behaviour
MaxErrors == 1
\* exceptions thrown in one behaviour of the extender over two rules
MaxRaises == 1
\* OTP codes sent, verify calls, and clock steps in one behaviour
MaxIssues == 2
MaxVerifies == 2
MaxTicks == 3
\* verify calls and clock steps where the attempt limit is to be reached
MaxAttemptCalls == 7
MaxAttemptTicks == 2
\* password-reset requests in one behaviour, and the codes sent and verify
\* calls made around them
MaxResets == 2
MaxResetIssues == 1
MaxResetVerifies == 1
\* rate limiter: calls beyond the ceiling of the type under load, calls of
\* each other type, and clock steps
MaxRlExtra == 2
MaxRlOther == 1
MaxRlTicks == 2
\* characters of a phone number given to normalizePhoneNumber
MaxPhoneLen == 5
\* hours the clock moves through while a pass may outlast the hour
MaxOverlapHours == 1
\* rows of the bookings table of the reminder job, those inserted while the
\* service runs included
MaxRemBookings == 3
\* the last hour getNextRunInfo is called in, counted from day 0, 00:00 UTC
MaxInfoHour == 47
\* checks the 15-minute scheduler starts while reminders are due, and sends
\* of it that fail
MaxSendChecks == 3
MaxLegErrors == 1
\* checks the 15-minute scheduler starts in one behaviour
MaxLegacyChecks == 32
\* reminder scheduler: the last day timers fire on, the failures of the
\* collaborators, and the direct calls of runReminderJob
MaxRemDay == 2
MaxRemErrors == 1
MaxRemCalls == 2

-----------------------------------------------------------------------------
(* State *)

VARIABLES
    now,          \* the clock: Date.now(), in hours
    dstStart,     \* the hour at which summer time begins
    rules,        \* table recurring_appointments, joined with businesses
    bookings,     \* table bookings, in insertion order
    pass,         \* the running processRecurringAppointments call; the rule
                  \* being processed is the head of its queue; history: the
                  \* dates it created and those whose check failed, per rule
    errs,         \* data-store errors that may still occur
    raises,       \* exceptions that may still be thrown inside a pass
    overlap,      \* a second processRecurringAppointments call in flight,
                  \* suspended at an await while the one in pass runs
    lastHour,     \* the hour at which the clock stops
    passLog,      \* history: the passes finished since the clock last moved,
                  \* latest first: the bookings each created and the fetches,
                  \* existence checks and inserts that failed in it
    lastWrite,    \* history: the latest write to last_booking_date
    origin,       \* history: rule id -> starting point of its first pass
    clock,        \* Date.now() of the request handlers, in minutes
    otpStore,     \* Map: normalized phone -> {code, expiresAt, attempts}
    otpTimers,    \* pending setTimeout callbacks of storeOTP
    verifiedPhones, \* Map: normalized phone -> {verifiedAt, expiresAt}
    verTimers,    \* pending setTimeout callbacks of verifyOTP
    reqs,         \* the POST /api/reset-password requests
    left,         \* calls the environment may still make
    iss,          \* history: phone -> the latest storeOTP for it
    vlog,         \* history: phone -> the verifyOTP calls since then
    resetsDone,   \* history: phone -> resets that succeeded since the
                  \* latest ticket was made for it
    rlNow,        \* Date.now() of the rate limiter, in milliseconds
    rateLimitStore, \* Map: "type:ip" -> {windowStart, windowMs, count}
    rlLeft,       \* type -> calls the client may still make, and clock steps
    rlHist,       \* history: key -> the window of its latest call, the calls
                  \* made in it, and the answer to the latest
    phoneArg,     \* a phone number as a client writes it
    phoneRet,     \* what normalizePhoneNumber returned for it, and then for
                  \* its own result
    remNow,       \* the local wall clock of the reminder scheduler, in seconds
    remTimers,    \* pending setTimeout callbacks of scheduleReminders
    remJob,       \* the running runReminderJob call
    sentReminders,  \* Set of `${booking.id}-${booking.date}`
    lastCleanupDate, \* the date sentReminders was last cleared on
    remBusinesses,  \* table businesses, as the reminder job reads it
    remBookings,  \* table bookings, as the reminder job reads it
    remLeft,      \* failures and direct calls that may still occur
    remWindows,   \* history: the passes started, with their target windows
    remLog,       \* history: the sends attempted, in order
    legacy,       \* the 15-minute scheduler: its clock in seconds, its pending
                  \* timer, and history: the checks started so far
    reminders,    \* the checks of the 15-minute scheduler: the tables, the
                  \* checkAndSendReminders calls in flight, the Set
                  \* sentReminders, and history: the reminders delivered
    runInfo       \* the latest getNextRunInfo call: the instant and the season
                  \* it was made in, and what it returned

extVars == <<now, dstStart, rules, bookings, pass, errs, raises, overlap, lastHour, passLog,
             lastWrite, origin>>

otpVars == <<clock, otpStore, otpTimers, verifiedPhones, verTimers, reqs, left,
             iss, vlog, resetsDone>>

rlVars == <<rlNow, rateLimitStore, rlLeft, rlHist>>

\* what the extender, the OTP handlers and the rate limiter leave alone
phoneVars == <<phoneArg, phoneRet>>

remVars == <<remNow, remTimers, remJob, sentReminders, lastCleanupDate,
             remBusinesses, remBookings, remLeft, remWindows, remLog>>

legVars == <<legacy, reminders>>

infoVars == <<runInfo>>

notExt == <<otpVars, rlVars, phoneVars, remVars, legVars, infoVars>>
notOtp == <<extVars, rlVars, phoneVars, remVars, legVars, infoVars>>
notRl == <<extVars, otpVars, phoneVars, remVars, legVars, infoVars>>
notPhone == <<extVars, otpVars, rlVars, remVars, legVars, infoVars>>
notRem == <<extVars, otpVars, rlVars, phoneVars, legVars, infoVars>>
notLeg == <<extVars, otpVars, rlVars, phoneVars, remVars, infoVars>>
notInfo == <<extVars, otpVars, rlVars, phoneVars, remVars, legVars>>

vars == <<extVars, otpVars, rlVars, phoneVars, remVars, legVars, infoVars>>

-----------------------------------------------------------------------------
(* Local time: process.env.TZ = 'Asia/Jerusalem' *)

\* Summer time begins on a Friday at 02:00 local = 00:00 UTC (here: week 2)
DSTStart == (2 * 7 + 5) * 24

\* no change of offset within the calendar of the model
NoDST == 1000 * 24

WeekHours == 7 * 24

\* offset of local time from UTC at the instant t
LocalTZA(t) == IF t >= dstStart THEN 3 ELSE 2

LocalTime(t) == t + LocalTZA(t)

\* the instant of a local wall-clock hour; an hour the clock skips is read
\* with the offset in force before the change
UTC(l) == IF l < dstStart + 3 THEN l - 2 ELSE l - 3

\* new Date('YYYY-MM-DD'): midnight UTC of that day
ParseDate(d) == d * 24

\* date.toISOString().split('T')[0]: the UTC calendar day
ISODate(t) == t \div 24

\* date.getDay(): the local day of the week, 0 = Sunday
getDay(t) == (LocalTime(t) \div 24) % 7

\* date.setDate(date.getDate() + n): n local calendar days on, same wall clock
AddDays(t, n) == UTC(LocalTime(t) + 24 * n)

-----------------------------------------------------------------------------
(* getNextOccurrence *)

RECURSIVE SeekDay(_, _)
SeekDay(t, targetDay) ==
    IF getDay(t) = targetDay THEN t ELSE SeekDay(AddDays(t, 1), targetDay)

\* the search were it to begin on afterDate itself
getNextOccurrence_FromSameDay(rule, afterDate) == SeekDay(afterDate, rule.day_of_week)

getNextOccurrence(rule, afterDate) ==
    LET nextDate == SeekDay(AddDays(afterDate, 1), rule.day_of_week)
    IN  IF rule.frequency = "biweekly" /\ rule.biweekly_start_date # NoDate
        THEN LET startDate == ParseDate(rule.biweekly_start_date)
                 weeksDiff == (nextDate - startDate) \div WeekHours
             IN  IF weeksDiff % 2 # 0 THEN AddDays(nextDate, 7) ELSE nextDate
        ELSE nextDate

-----------------------------------------------------------------------------
(* The data store *)

\* rows of recurring_appointments the model starts from
RuleDays == {2, 5}
StartDates == {NoDate, 3, 9}
LastDates(dow) == {NoDate} \cup {d \in 1..16 : d % 7 = dow}
Windows == {[booking_window_enabled |-> TRUE, booking_window_days |-> 7],
            [booking_window_enabled |-> TRUE, booking_window_days |-> 0],
            [booking_window_enabled |-> FALSE, booking_window_days |-> 7]}

\* the window of the businesses where two rules are processed
Windows2 == [booking_window_enabled |-> TRUE, booking_window_days |-> 7]

RuleRows ==
    {[id |-> 1, business_id |-> "b1", client_phone |-> "972501", time |-> "10:00",
      is_active |-> TRUE, day_of_week |-> dow, frequency |-> f,
      biweekly_start_date |-> s, last_booking_date |-> l, businesses |-> w] :
        dow \in RuleDays, f \in {"weekly", "biweekly"}, s \in StartDates,
        l \in {NoDate} \cup (1..16), w \in Windows}

\* clock readings the model starts from: a Monday 11:00 local, and the
\* following local midnight hour (Tuesday 01:00 local = Monday 23:00 UTC)
DayStart == 8 * 24 + 9
NightStart == 8 * 24 + 23

\* a rule row whose join found no business
NoBusiness == [booking_window_enabled |-> FALSE, booking_window_days |-> NoDate]

\* no write to last_booking_date yet
NoWrite == [rule |-> 0, value |-> NoDate, created |-> << >>]

\* no pass is running
IdlePass ==
    [pc |-> "idle", queue |-> << >>, today |-> 0, maxDate |-> 0,
     lastBookingDate |-> 0, firstDate |-> 0, currentDate |-> 0,
     newLastDate |-> "lastBookingDate", totalCreated |-> 0, created |-> << >>,
     unknown |-> << >>, missed |-> 0]

\* fetchActiveRecurringRules: the active rows, or none when the query fails
fetchActiveRecurringRules(ok) ==
    IF ok THEN SelectSeq(rules, LAMBDA r : r.is_active) ELSE << >>

\* the existence check were a failed query to count as "does not exist"
bookingExists_FailOpen(ok, businessId, date, time, clientPhone) ==
    /\ ok
    /\ \E i \in 1..Len(bookings) :
            /\ bookings[i].business_id = businessId
            /\ bookings[i].date = date
            /\ bookings[i].time = time
            /\ bookings[i].client_phone = clientPhone
            /\ bookings[i].status # "cancelled"

\* bookingExists: a non-cancelled booking at (business, date, time, phone);
\* a failed query counts as "exists"
bookingExists(ok, businessId, date, time, clientPhone) ==
    IF ~ok THEN TRUE
    ELSE \E i \in 1..Len(bookings) :
            /\ bookings[i].business_id = businessId
            /\ bookings[i].date = date
            /\ bookings[i].time = time
            /\ bookings[i].client_phone = clientPhone
            /\ bookings[i].status # "cancelled"

\* the row createRecurringBooking inserts
NewBooking(rule, dateStr) ==
    [business_id |-> rule.business_id, client_phone |-> rule.client_phone,
     date |-> dateStr, time |-> rule.time, status |-> "confirmed",
     recurring_appointment_id |-> rule.id]

\* business.booking_window_enabled ? (business.booking_window_days || 30) : 90
bookingWindowDays(business) ==
    IF business.booking_window_enabled
    THEN (IF business.booking_window_days # 0 THEN business.booking_window_days ELSE 30)
    ELSE 90

\* "Move to next occurrence": currentDate.setDate(currentDate.getDate() + 7 | 14)
NextStep(rule, currentDate) ==
    IF rule.frequency = "weekly" THEN AddDays(currentDate, 7)
    ELSE IF rule.frequency = "biweekly" THEN AddDays(currentDate, 14)
    ELSE currentDate

\* newLastDate were it to start as the first candidate
NewLastDate_FromCandidate(p) == p.currentDate

\* newLastDate is a reference: to the lastBookingDate object until a booking is
\* created, and from then on to the currentDate object, which the loop mutates
NewLastDate(p) ==
    IF p.newLastDate = "currentDate" THEN p.currentDate ELSE p.lastBookingDate

\* a data-store call either succeeds or fails; failures are bounded
Outcome(ok) ==
    /\ ok \in BOOLEAN
    /\ (~ok) => errs > 0
    /\ errs' = IF ok THEN errs ELSE errs - 1

-----------------------------------------------------------------------------
(* processRecurringAppointments, one step per awaited call *)

\* the pass begins: the rules are fetched
ExtStart ==
    /\ pass.pc = "idle"
    /\ Len(passLog) < 2
    /\ \E ok \in BOOLEAN :
        /\ Outcome(ok)
        /\ pass' = [IdlePass EXCEPT !.pc = "rule",
                                     !.queue = fetchActiveRecurringRules(ok),
                                     !.missed = IF ok THEN 0 ELSE 1]
    /\ UNCHANGED <<now, dstStart, rules, bookings, lastHour, raises, overlap, passLog, lastWrite, origin,
                   notExt>>

\* the loop were it to take one more weekly step past the horizon
LoopPc_OneMore(currentDate, maxDate) ==
    IF currentDate <= AddDays(maxDate, 7) THEN "exists" ELSE "update"

\* the while condition of the materialization loop
LoopPc(currentDate, maxDate) == IF currentDate <= maxDate THEN "exists" ELSE "update"

\* the next rule of the for loop: window, starting point, first candidate
ExtRule ==
    /\ pass.pc = "rule"
    /\ pass.queue # << >>
    /\ LET rule == Head(pass.queue)
           business == rule.businesses
       IN  IF business = NoBusiness
           THEN /\ pass' = [pass EXCEPT !.queue = Tail(pass.queue)]
                /\ UNCHANGED origin
           ELSE LET today == now
                    maxDate == AddDays(today, bookingWindowDays(business))
                    lastBookingDate == IF rule.last_booking_date # NoDate
                                       THEN ParseDate(rule.last_booking_date)
                                       ELSE today
                    currentDate == getNextOccurrence(rule, lastBookingDate)
                IN  /\ pass' = [pass EXCEPT !.today = today,
                                            !.maxDate = maxDate,
                                            !.lastBookingDate = lastBookingDate,
                                            !.firstDate = currentDate,
                                            !.currentDate = currentDate,
                                            !.newLastDate = "lastBookingDate",
                                            !.created = << >>,
                                            !.unknown = << >>,
                                            !.pc = LoopPc(currentDate, maxDate)]
                    /\ origin' = IF origin[rule.id] = NoDate
                                 THEN [origin EXCEPT ![rule.id] = lastBookingDate]
                                 ELSE origin
    /\ UNCHANGED <<now, dstStart, rules, bookings, errs, lastHour, raises, overlap, passLog, lastWrite,
                   notExt>>

\* createRecurringBooking, first await: the existence check
ExtExists ==
    /\ pass.pc = "exists"
    /\ \E ok \in BOOLEAN :
        /\ Outcome(ok)
        /\ LET rule == Head(pass.queue)
               dateStr == ISODate(pass.currentDate)
               exists == bookingExists(ok, rule.business_id, dateStr, rule.time,
                                       rule.client_phone)
               nextDate == NextStep(rule, pass.currentDate)
               checked == [pass EXCEPT !.unknown = IF ok THEN @
                                                   ELSE Append(@, dateStr),
                                       !.missed = IF ok THEN @ ELSE @ + 1]
           IN  pass' = IF exists
                       THEN [checked EXCEPT !.currentDate = nextDate,
                                            !.pc = LoopPc(nextDate, pass.maxDate)]
                       ELSE [checked EXCEPT !.pc = "insert"]
    /\ UNCHANGED <<now, dstStart, rules, bookings, lastHour, raises, overlap, passLog, lastWrite, origin,
                   notExt>>

\* createRecurringBooking, second await: the insert; then the loop body's tail
ExtInsert ==
    /\ pass.pc = "insert"
    /\ \E ok \in BOOLEAN :
        /\ Outcome(ok)
        /\ LET rule == Head(pass.queue)
               dateStr == ISODate(pass.currentDate)
               nextDate == NextStep(rule, pass.currentDate)
           IN  /\ bookings' = IF ok THEN Append(bookings, NewBooking(rule, dateStr))
                              ELSE bookings
               /\ pass' = IF ok
                          THEN [pass EXCEPT !.totalCreated = @ + 1,
                                            !.newLastDate = "currentDate",
                                            !.created = Append(@, dateStr),
                                            !.currentDate = nextDate,
                                            !.pc = LoopPc(nextDate, pass.maxDate)]
                          ELSE [pass EXCEPT !.currentDate = nextDate,
                                            !.pc = LoopPc(nextDate, pass.maxDate),
                                            !.missed = @ + 1]
    /\ UNCHANGED <<now, dstStart, rules, lastHour, raises, overlap, passLog, lastWrite, origin,
                   notExt>>

\* the rows of the table with rule id's last_booking_date set to dateStr
UpdateLastBookingDate(id, dateStr) ==
    [i \in 1..Len(rules) |->
        IF rules[i].id = id THEN [rules[i] EXCEPT !.last_booking_date = dateStr]
        ELSE rules[i]]

\* after the loop: "Update last_booking_date if we created new bookings"
ExtUpdate ==
    /\ pass.pc = "update"
    /\ IF NewLastDate(pass) > pass.lastBookingDate
       THEN \E ok \in BOOLEAN :
              /\ Outcome(ok)
              /\ LET dateStr == ISODate(NewLastDate(pass))
                 IN  IF ok
                     THEN /\ rules' = UpdateLastBookingDate(Head(pass.queue).id, dateStr)
                          /\ lastWrite' = [rule |-> Head(pass.queue).id, value |-> dateStr,
                                           created |-> pass.created]
                     ELSE UNCHANGED <<rules, lastWrite>>
              /\ pass' = [pass EXCEPT !.queue = Tail(pass.queue), !.pc = "rule"]
       ELSE /\ pass' = [pass EXCEPT !.queue = Tail(pass.queue), !.pc = "rule"]
            /\ UNCHANGED <<rules, lastWrite, errs>>
    /\ UNCHANGED <<now, dstStart, bookings, lastHour, raises, overlap, passLog, origin,
                   notExt>>

\* the for loop is over: the total is reported and the pass ends
ExtFinish ==
    /\ pass.pc = "rule"
    /\ pass.queue = << >>
    /\ pass' = IdlePass
    /\ passLog' = <<[totalCreated |-> pass.totalCreated, missed |-> pass.missed,
                      reported |-> TRUE, skipped |-> 0]>>
                  \o passLog
    /\ UNCHANGED <<now, dstStart, rules, bookings, errs, lastHour, raises, overlap, lastWrite, origin,
                   notExt>>

\* a statement of the loop body throws, or an awaited call of it rejects:
\* control leaves the for loop for the catch of the pass, which logs the error;
\* the remaining rules are not visited and the total is not reported
ExtRaise ==
    /\ pass.pc \in {"exists", "insert", "update"}
    /\ raises > 0
    /\ raises' = raises - 1
    /\ pass' = IdlePass
    /\ passLog' = <<[totalCreated |-> pass.totalCreated, missed |-> pass.missed + 1,
                      reported |-> FALSE, skipped |-> Len(pass.queue) - 1]>>
                  \o passLog
    /\ UNCHANGED <<now, dstStart, rules, bookings, errs, overlap, lastHour, lastWrite, origin,
                   notExt>>

\* the call is suspended at an await: the existence check, the insert, or
\* the update of last_booking_date
Awaiting(p) ==
    \/ p.pc \in {"exists", "insert"}
    \/ p.pc = "update" /\ NewLastDate(p) > p.lastBookingDate

\* the interval timer fires an hour after the pass began, the pass still
\* awaiting a call: processRecurringAppointments is called again
ExtOverlap ==
    /\ Awaiting(pass)
    /\ overlap = IdlePass
    /\ now + 1 <= lastHour
    /\ now' = now + 1
    /\ overlap' = pass
    /\ pass' = IdlePass
    /\ UNCHANGED <<dstStart, rules, bookings, errs, raises, lastHour, passLog, lastWrite,
                   origin, notExt>>

\* the awaited call of the suspended pass returns: the event loop goes on
\* with that pass, the one that ran being suspended at an await, or over
ExtSwitch ==
    /\ overlap # IdlePass
    /\ Awaiting(pass) \/ pass.pc = "idle"
    /\ pass' = overlap
    /\ overlap' = pass
    /\ UNCHANGED <<now, dstStart, rules, bookings, errs, raises, lastHour, passLog,
                   lastWrite, origin, notExt>>

\* time passes after a pass: an hour (the interval timer), or a day (the
\* process was down and the runs in between were skipped)
Tick ==
    /\ pass.pc = "idle"
    /\ passLog # << >>
    /\ \E dt \in {1, 24} :
        /\ now + dt <= lastHour
        /\ now' = now + dt
    /\ passLog' = << >>
    /\ UNCHANGED <<dstStart, rules, bookings, pass, errs, lastHour, raises, overlap, lastWrite, origin,
                   notExt>>

\* no request has been made to the OTP and password-reset handlers
OtpIdle ==
    /\ clock = 0
    /\ otpStore = [p \in {} |-> 0]
    /\ otpTimers = {}
    /\ verifiedPhones = [p \in {} |-> 0]
    /\ verTimers = {}
    /\ reqs = << >>
    /\ left = [issues |-> 0, verifies |-> 0, ticks |-> 0]
    /\ iss = [p \in {} |-> 0]
    /\ vlog = [p \in {} |-> 0]
    /\ resetsDone = [p \in {} |-> 0]

\* no request has come to the rate limiter
RlIdle ==
    /\ rlNow = 0
    /\ rateLimitStore = << >>
    /\ rlLeft = [calls |-> << >>, ticks |-> 0]
    /\ rlHist = << >>

\* no business, no booking, no check in flight
NoReminders ==
    [businesses |-> << >>, bookings |-> << >>, flights |-> << >>,
     sentReminders |-> {}, delivered |-> << >>, errors |-> 0, maxChecks |-> 0]

\* the 15-minute scheduler has not been started
LegIdle ==
    /\ legacy = [now |-> 0, due |-> 0 - 1, kind |-> "", startup |-> 0,
                 firstDue |-> 0 - 1, checks |-> 0, prev |-> 0 - 1, last |-> 0 - 1]
    /\ reminders = NoReminders

\* no getNextRunInfo call has been made
NoRunInfo == [now |-> 0, change |-> "none", msUntil |-> 0, runType |-> "", target |-> 0]

InfoIdle == runInfo = NoRunInfo

\* no phone number is being normalized
PhoneIdle ==
    /\ phoneArg = << >>
    /\ phoneRet = << >>

\* no reminder job is running
IdleJob ==
    [pc |-> "idle", runType |-> "", chained |-> FALSE, todayStr |-> 0 - 1,
     targetDate |-> 0 - 1, startTime |-> 0, endTime |-> 0,
     businesses |-> << >>, bookings |-> << >>, totalSent |-> 0]

\* the reminder scheduler has not been started
RemIdle ==
    /\ remNow = 0
    /\ remTimers = {}
    /\ remJob = IdleJob
    /\ sentReminders = {}
    /\ lastCleanupDate = 0 - 1
    /\ remBusinesses = << >>
    /\ remBookings = << >>
    /\ remLeft = [errors |-> 0, calls |-> 0]
    /\ remWindows = << >>
    /\ remLog = << >>

\* the date of the first occurrence a rule is due after its starting point
FirstDue(r, today) ==
    LET from == IF r.last_booking_date # NoDate THEN r.last_booking_date
                ELSE ISODate(today)
    IN  CHOOSE d \in (from + 1)..(from + 7) : d % 7 = r.day_of_week

\* a booking made outside the extender (by the booking front end)
OutsideBooking(r, d, status) ==
    [business_id |-> r.business_id, client_phone |-> r.client_phone, date |-> d,
     time |-> r.time, status |-> status, recurring_appointment_id |-> 0]

\* the state after startup, the clock, the season and the data store being
\* among those given; env is a set of <<errors, hours, outside bookings>>
ExtInitWith(hours, dsts, envs) ==
    /\ OtpIdle
    /\ RlIdle
    /\ PhoneIdle
    /\ RemIdle
    /\ LegIdle
    /\ InfoIdle
    /\ now \in hours
    /\ dstStart \in dsts
    /\ pass = IdlePass
    /\ passLog = << >>
    /\ lastWrite = NoWrite
    /\ origin = [id \in {1} |-> NoDate]
    /\ \E r \in RuleRows, env \in envs :
        /\ r.last_booking_date \in LastDates(r.day_of_week)
        /\ (r.frequency = "weekly") => r.biweekly_start_date = NoDate
        /\ rules = <<r>>
        /\ errs = env[1]
        /\ raises = 0
        /\ overlap = IdlePass
        /\ lastHour = now + env[2]
        /\ bookings \in {<< >>} \cup
                {<<OutsideBooking(r, FirstDue(r, now), st)>> : st \in env[3]}

\* winter, daytime, a data store that does not fail
ExtInit == ExtInitWith({DayStart}, {NoDST}, {<<0, MaxHours, {}>>})

\* any season and hour; a data store that may fail in the first hours, with
\* a booking already made for the first due date, or cancelled
EnvInit == ExtInitWith({DayStart, NightStart}, {NoDST, DSTStart},
                       {<<0, MaxEnvHours, {}>>,
                        <<MaxErrors, MaxErrHours, {"confirmed", "cancelled"}>>})

ExtNext ==
    \/ ExtStart
    \/ ExtRule
    \/ ExtExists
    \/ ExtInsert
    \/ ExtUpdate
    \/ ExtFinish
    \/ Tick

\* two rules of two clients, the second one's business possibly missing
\* from the join; one data-store error and one exception may occur
RulesInit ==
    /\ OtpIdle
    /\ RlIdle
    /\ PhoneIdle
    /\ RemIdle
    /\ LegIdle
    /\ InfoIdle
    /\ now = DayStart
    /\ dstStart = NoDST
    /\ pass = IdlePass
    /\ passLog = << >>
    /\ lastWrite = NoWrite
    /\ origin = [id \in {1, 2} |-> NoDate]
    /\ errs \in 0..MaxErrors
    /\ raises \in 0..MaxRaises
    /\ overlap = IdlePass
    /\ lastHour = now + MaxErrHours
    /\ bookings = << >>
    /\ \E r1, r2 \in RuleRows, w \in {Windows2, NoBusiness} :
        /\ r1.last_booking_date \in LastDates(r1.day_of_week)
        /\ r1.biweekly_start_date = NoDate
        /\ r1.businesses = Windows2
        /\ r2 = [r1 EXCEPT !.day_of_week = r2.day_of_week]
        /\ rules = <<r1, [r2 EXCEPT !.id = 2, !.client_phone = "972502",
                                     !.businesses = w]>>

\* the extender in winter with a sound data store
Spec == ExtInit /\ [][ExtNext]_vars

\* winter, by day or in the hour before midnight UTC, a data store that does
\* not fail but may be slow; the business of the rule has a window of a week
OverlapInit ==
    /\ ExtInitWith({DayStart, NightStart}, {NoDST}, {<<0, MaxOverlapHours, {}>>})
    /\ rules[1].businesses = Windows2

\* the extender with a pass that may outlast the hour
OverlapSpec == OverlapInit /\ [][ExtNext \/ ExtOverlap \/ ExtSwitch]_vars

\* the extender over two rules, with errors and exceptions
RulesSpec == RulesInit /\ [][ExtNext \/ ExtRaise]_vars

\* the extender in every environment of the model
EnvSpec == EnvInit /\ [][ExtNext]_vars

-----------------------------------------------------------------------------
(* OTP store, verified phones and password reset *)

OTP_EXPIRY_MINUTES == 10
\* "Store verification status for 10 minutes"
VERIFIED_MINUTES == 10
\* "Rate limiting - max 5 attempts"
MAX_ATTEMPTS == 5

\* the clock of the request handlers moves in half expiry periods
Step == OTP_EXPIRY_MINUTES \div 2

\* normalized phone numbers, and the codes generateOTP may draw
Phones == {"972501234567"}
Codes == {"123456", "654321"}

NoTime == 0 - 1
NoEntry == [code |-> "", expiresAt |-> NoTime, attempts |-> 0]
NoTicket == [verifiedAt |-> NoTime, expiresAt |-> NoTime]
NoIssue == [code |-> "", expiresAt |-> NoTime]

ReqIds == 1..MaxResets
NewReq == [pc |-> "new", phone |-> "", result |-> ""]

\* storeOTP: the entry, and the timer that deletes the key after the expiry
StoreOTP(phone, otp) ==
    /\ otpStore' = [otpStore EXCEPT ![phone] =
                        [code |-> otp,
                         expiresAt |-> clock + OTP_EXPIRY_MINUTES,
                         attempts |-> 0]]
    /\ otpTimers' = otpTimers \cup {[phone |-> phone,
                                     due |-> clock + OTP_EXPIRY_MINUTES]}

\* the attempt check were it to let one more call through
AttemptsUsedUp_OneMore(stored) == stored.attempts > MAX_ATTEMPTS

\* "Rate limiting - max 5 attempts"
AttemptsUsedUp(stored) == stored.attempts >= MAX_ATTEMPTS

\* the result were the expiry test left out
VerifyResult_NoExpiry(stored, code) ==
    IF stored = NoEntry THEN "OTP not found or expired"
    ELSE IF AttemptsUsedUp(stored) THEN "Too many attempts"
    ELSE IF stored.code # code THEN "Invalid OTP"
    ELSE "valid"

\* verifyOTP: the error it returns, or "valid"
VerifyResult(stored, code) ==
    IF stored = NoEntry THEN "OTP not found or expired"
    ELSE IF clock > stored.expiresAt THEN "OTP expired"
    ELSE IF AttemptsUsedUp(stored) THEN "Too many attempts"
    ELSE IF stored.code # code THEN "Invalid OTP"
    ELSE "valid"

\* the entry were a mismatch not to count
VerifyEntry_NoCount(stored, code) ==
    IF VerifyResult(stored, code) = "Invalid OTP" THEN stored ELSE NoEntry

\* the entry were it left in the store after a successful verify
VerifyEntry_KeepOnSuccess(stored, code) ==
    IF VerifyResult(stored, code) \in {"Invalid OTP", "valid"}
    THEN [stored EXCEPT !.attempts = @ + 1]
    ELSE NoEntry

\* verifyOTP: what is left in otpStore under the phone
VerifyEntry(stored, code) ==
    IF VerifyResult(stored, code) = "Invalid OTP"
    THEN [stored EXCEPT !.attempts = @ + 1]
    ELSE NoEntry

\* POST /api/otp/send: generateOTP and storeOTP (the message is then sent)
SendOTP(phone, otp) ==
    /\ left.issues > 0
    /\ left' = [left EXCEPT !.issues = @ - 1]
    /\ StoreOTP(phone, otp)
    /\ iss' = [iss EXCEPT ![phone] = [code |-> otp,
                                      expiresAt |-> clock + OTP_EXPIRY_MINUTES]]
    /\ vlog' = [vlog EXCEPT ![phone] = << >>]
    /\ UNCHANGED <<clock, verifiedPhones, verTimers, reqs, resetsDone,
                   notOtp>>

\* the verification were it kept after every successful verify
KeepsVerified_Always(result, keepVerified) == result = "valid"

\* verifyOTP reaches "if (keepVerified)" on success only
KeepsVerified(result, keepVerified) == result = "valid" /\ keepVerified

\* POST /api/otp/verify: verifyOTP(phone, code, forPasswordReset === true)
VerifyOTP(phone, code, keepVerified) ==
    /\ left.verifies > 0
    /\ left' = [left EXCEPT !.verifies = @ - 1]
    /\ LET stored == otpStore[phone]
           result == VerifyResult(stored, code)
       IN  /\ otpStore' = [otpStore EXCEPT ![phone] = VerifyEntry(stored, code)]
           /\ vlog' = [vlog EXCEPT ![phone] =
                          Append(@, [correct |-> code = iss[phone].code,
                                     early |-> clock < iss[phone].expiresAt,
                                     result |-> result])]
           /\ IF KeepsVerified(result, keepVerified)
              THEN /\ verifiedPhones' =
                          [verifiedPhones EXCEPT ![phone] =
                              [verifiedAt |-> clock,
                               expiresAt |-> clock + VERIFIED_MINUTES]]
                   /\ verTimers' = verTimers \cup
                          {[phone |-> phone, due |-> clock + VERIFIED_MINUTES]}
                   /\ resetsDone' = [resetsDone EXCEPT ![phone] = 0]
              ELSE UNCHANGED <<verifiedPhones, verTimers, resetsDone>>
    /\ UNCHANGED <<clock, otpTimers, reqs, iss,
                   notOtp>>

\* the "Auto-cleanup" callback of storeOTP fires
OtpTimerFires(timer) ==
    /\ timer \in otpTimers
    /\ clock >= timer.due
    /\ otpTimers' = otpTimers \ {timer}
    /\ otpStore' = [otpStore EXCEPT ![timer.phone] = NoEntry]
    /\ UNCHANGED <<clock, verifiedPhones, verTimers, reqs, left, iss, vlog,
                   resetsDone,
                   notOtp>>

\* the "Auto-cleanup" callback of verifyOTP fires
VerTimerFires(timer) ==
    /\ timer \in verTimers
    /\ clock >= timer.due
    /\ verTimers' = verTimers \ {timer}
    /\ verifiedPhones' = [verifiedPhones EXCEPT ![timer.phone] = NoTicket]
    /\ UNCHANGED <<clock, otpStore, otpTimers, reqs, left, iss, vlog, resetsDone,
                   notOtp>>

\* the expiry test were it left out
VerificationExpired_Never(verification) == FALSE

\* "if (Date.now() > verification.expiresAt)"
VerificationExpired(verification) == clock > verification.expiresAt

\* POST /api/reset-password up to its first await: the verification check;
\* requests are numbered in the order they arrive
ResetCheck(r, phoneFromEmail) ==
    /\ reqs[r].pc = "new"
    /\ \A q \in ReqIds : q < r => reqs[q].pc # "new"
    /\ LET verification == verifiedPhones[phoneFromEmail]
       IN  IF verification = NoTicket
           THEN /\ reqs' = [reqs EXCEPT ![r] =
                              [pc |-> "done", phone |-> phoneFromEmail,
                               result |-> "403 not verified"]]
                /\ UNCHANGED verifiedPhones
           ELSE IF VerificationExpired(verification)
           THEN /\ reqs' = [reqs EXCEPT ![r] =
                              [pc |-> "done", phone |-> phoneFromEmail,
                               result |-> "403 expired"]]
                /\ verifiedPhones' =
                       [verifiedPhones EXCEPT ![phoneFromEmail] = NoTicket]
           ELSE /\ reqs' = [reqs EXCEPT ![r] =
                              [pc |-> "getUser", phone |-> phoneFromEmail,
                               result |-> ""]]
                /\ UNCHANGED verifiedPhones
    /\ UNCHANGED <<clock, otpStore, otpTimers, verTimers, left, iss, vlog,
                   resetsDone,
                   notOtp>>

\* ... getUserById has answered: the user is found and its email matches, or not
ResetGetUser(r, answer) ==
    /\ reqs[r].pc = "getUser"
    /\ reqs' = [reqs EXCEPT ![r] =
                   IF answer = "found" THEN [@ EXCEPT !.pc = "update"]
                   ELSE [@ EXCEPT !.pc = "done", !.result = answer]]
    /\ UNCHANGED <<clock, otpStore, otpTimers, verifiedPhones, verTimers, left,
                   iss, vlog, resetsDone,
                   notOtp>>

\* ... updateUserById has answered: on success the verification is cleared
ResetUpdate(r, ok) ==
    /\ reqs[r].pc = "update"
    /\ IF ok
       THEN /\ verifiedPhones' = [verifiedPhones EXCEPT ![reqs[r].phone] = NoTicket]
            /\ resetsDone' = [resetsDone EXCEPT ![reqs[r].phone] = @ + 1]
            /\ reqs' = [reqs EXCEPT ![r] = [@ EXCEPT !.pc = "done",
                                                     !.result = "success"]]
       ELSE /\ reqs' = [reqs EXCEPT ![r] = [@ EXCEPT !.pc = "done",
                                                     !.result = "500"]]
            /\ UNCHANGED <<verifiedPhones, resetsDone>>
    /\ UNCHANGED <<clock, otpStore, otpTimers, verTimers, left, iss, vlog,
                   notOtp>>

\* time passes; a timer fires at its due time or up to one step late
ClockTick ==
    /\ left.ticks > 0
    /\ \A timer \in otpTimers \cup verTimers : timer.due >= clock
    /\ clock' = clock + Step
    /\ left' = [left EXCEPT !.ticks = @ - 1]
    /\ UNCHANGED <<otpStore, otpTimers, verifiedPhones, verTimers, reqs, iss,
                   vlog, resetsDone,
                   notOtp>>

\* the extender has no rule to work on
ExtIdle ==
    /\ now = DayStart
    /\ dstStart = NoDST
    /\ rules = << >>
    /\ bookings = << >>
    /\ pass = IdlePass
    /\ errs = 0
    /\ raises = 0
    /\ overlap = IdlePass
    /\ lastHour = DayStart
    /\ passLog = << >>
    /\ lastWrite = NoWrite
    /\ origin = [id \in {1} |-> NoDate]

\* the handlers' state after startup, the environment's calls being bounded
OtpInitWith(issues, verifies, ticks) ==
    /\ ExtIdle
    /\ RlIdle
    /\ PhoneIdle
    /\ RemIdle
    /\ LegIdle
    /\ InfoIdle
    /\ clock = 0
    /\ otpStore = [p \in Phones |-> NoEntry]
    /\ otpTimers = {}
    /\ verifiedPhones = [p \in Phones |-> NoTicket]
    /\ verTimers = {}
    /\ reqs = [r \in ReqIds |-> NewReq]
    /\ left = [issues |-> issues, verifies |-> verifies, ticks |-> ticks]
    /\ iss = [p \in Phones |-> NoIssue]
    /\ vlog = [p \in Phones |-> << >>]
    /\ resetsDone = [p \in Phones |-> 0]

OtpCalls ==
    \/ \E p \in Phones, c \in Codes : SendOTP(p, c)
    \/ \E p \in Phones, c \in Codes, k \in BOOLEAN : VerifyOTP(p, c, k)
    \/ \E timer \in otpTimers : OtpTimerFires(timer)
    \/ \E timer \in verTimers : VerTimerFires(timer)
    \/ ClockTick

ResetCalls ==
    \/ \E r \in ReqIds, p \in Phones : ResetCheck(r, p)
    \/ \E r \in ReqIds, a \in {"found", "404 user not found", "403 email mismatch"} :
            ResetGetUser(r, a)
    \/ \E r \in ReqIds, ok \in BOOLEAN : ResetUpdate(r, ok)

OtpInit == OtpInitWith(MaxIssues, MaxVerifies, MaxTicks)

AttemptInit == OtpInitWith(MaxIssues, MaxAttemptCalls, MaxAttemptTicks)

ResetInit == OtpInitWith(MaxResetIssues, MaxResetVerifies, MaxTicks)

\* the OTP handlers alone
OtpSpec == OtpInit /\ [][OtpCalls]_vars

\* the OTP handlers under many verify calls in a short time
AttemptSpec == AttemptInit /\ [][OtpCalls]_vars

\* two codes issued and verified for a reset, and requests in flight
TicketInit == OtpInitWith(MaxIssues, MaxVerifies, MaxTicks)

\* the OTP handlers and the reset requests, a phone verified more than once
TicketSpec == TicketInit /\ [][OtpCalls \/ ResetCalls]_vars

\* the OTP handlers with password-reset requests in flight
ResetSpec == ResetInit /\ [][OtpCalls \/ ResetCalls]_vars

-----------------------------------------------------------------------------
(* Rate limiting *)

\* "Rate limit configuration per endpoint type"
RATE_LIMITS ==
    [otp |-> [windowMs |-> 60 * 1000, maxRequests |-> 3],
     message |-> [windowMs |-> 60 * 1000, maxRequests |-> 30],
     broadcast |-> [windowMs |-> 60 * 1000, maxRequests |-> 2]]

\* the types rateLimit(type) is made with, and one that has no configuration
RlTypes == {"otp", "message", "broadcast", "other"}
RlIps == {"10.0.0.1"}

\* RATE_LIMITS[type] || RATE_LIMITS.message
RlConfig(type) ==
    IF type \in DOMAIN RATE_LIMITS THEN RATE_LIMITS[type] ELSE RATE_LIMITS.message

\* `${type}:${ip}`
RlKey(type, ip) == <<type, ip>>
RlKeys == {RlKey(t, ip) : t \in RlTypes, ip \in RlIps}

\* rateLimitStore.get(key) === undefined
NoWindow == [windowStart |-> 0 - 1, windowMs |-> 0, count |-> 0]
NoAnswer == [status |-> "", retryAfter |-> 0]
NoCalls == [start |-> 0 - 1, calls |-> 0, answer |-> NoAnswer, exceeded |-> FALSE]

\* Math.ceil(ms / 1000)
CeilSeconds(ms) == IF ms >= 0 THEN (ms + 999) \div 1000 ELSE 0 - ((0 - ms) \div 1000)

\* the window were it over at its last instant
WindowOver_AtEnd(entry, windowMs) == rlNow >= entry.windowStart + windowMs

\* the window of an entry is over
WindowOver(entry, windowMs) == rlNow > entry.windowStart + windowMs

\* the limit test were it to deny the call that reaches the ceiling
OverLimit_AtCeiling(entry, config) == entry.count >= config.maxRequests

\* "if (entry.count > config.maxRequests)"
OverLimit(entry, config) == entry.count > config.maxRequests

\* the middleware rateLimit(type) handles a request from ip
RateLimit(type, ip) ==
    /\ rlLeft.calls[type] > 0
    /\ rlLeft' = [rlLeft EXCEPT !.calls[type] = @ - 1]
    /\ LET config == RlConfig(type)
           key == RlKey(type, ip)
           stored == rateLimitStore[key]
           opened == IF stored = NoWindow \/ WindowOver(stored, config.windowMs)
                     THEN [windowStart |-> rlNow, windowMs |-> config.windowMs,
                           count |-> 0]
                     ELSE stored
           entry == [opened EXCEPT !.count = @ + 1]
           answer == IF OverLimit(entry, config)
                     THEN [status |-> "429",
                           retryAfter |-> CeilSeconds(entry.windowStart
                                                      + config.windowMs - rlNow)]
                     ELSE [status |-> "next", retryAfter |-> 0]
           seen == rlHist[key]
           fresh == seen.calls = 0 \/ rlNow > seen.start + config.windowMs
       IN  /\ rateLimitStore' = [rateLimitStore EXCEPT ![key] = entry]
           /\ rlHist' = [rlHist EXCEPT ![key] =
                            [start |-> IF fresh THEN rlNow ELSE seen.start,
                             calls |-> IF fresh THEN 1 ELSE seen.calls + 1,
                             answer |-> answer,
                             exceeded |-> IF fresh THEN seen.answer.status = "429"
                                          ELSE seen.exceeded]]
    /\ UNCHANGED <<rlNow, notRl>>

\* the sweep were it to remove every entry
CleanupRateLimits_All ==
    /\ \E key \in DOMAIN rateLimitStore : rateLimitStore[key] # NoWindow
    /\ rateLimitStore' = [key \in DOMAIN rateLimitStore |-> NoWindow]
    /\ UNCHANGED <<rlNow, rlLeft, rlHist, notRl>>

\* cleanupRateLimits, run every minute
CleanupRateLimits ==
    /\ \E key \in DOMAIN rateLimitStore :
            /\ rateLimitStore[key] # NoWindow
            /\ WindowOver(rateLimitStore[key], rateLimitStore[key].windowMs)
    /\ rateLimitStore' =
            [key \in DOMAIN rateLimitStore |->
                IF /\ rateLimitStore[key] # NoWindow
                   /\ WindowOver(rateLimitStore[key], rateLimitStore[key].windowMs)
                THEN NoWindow ELSE rateLimitStore[key]]
    /\ UNCHANGED <<rlNow, rlLeft, rlHist, notRl>>

\* the time between two requests, in milliseconds
RlSteps == {1, 60 * 1000 - 1, 60 * 1000}

RlTick ==
    /\ rlLeft.ticks > 0
    /\ \E dt \in RlSteps : rlNow' = rlNow + dt
    /\ rlLeft' = [rlLeft EXCEPT !.ticks = @ - 1]
    /\ UNCHANGED <<rateLimitStore, rlHist, notRl>>

\* after startup; one type is under load, up to past its ceiling, and
\* another may be in use
RlInit ==
    /\ ExtIdle
    /\ OtpIdle
    /\ PhoneIdle
    /\ RemIdle
    /\ LegIdle
    /\ InfoIdle
    /\ rlNow = 0
    /\ rateLimitStore = [key \in RlKeys |-> NoWindow]
    /\ rlHist = [key \in RlKeys |-> NoCalls]
    /\ \E load \in RlTypes, other \in RlTypes :
        rlLeft = [calls |-> [t \in RlTypes |->
                                IF t = load THEN RlConfig(t).maxRequests + MaxRlExtra
                                ELSE IF t = other THEN MaxRlOther
                                ELSE 0],
                  ticks |-> MaxRlTicks]

RlNext ==
    \/ \E t \in RlTypes, ip \in RlIps : RateLimit(t, ip)
    \/ CleanupRateLimits
    \/ RlTick

\* the rate limiter alone
RlSpec == RlInit /\ [][RlNext]_vars

-----------------------------------------------------------------------------
(* Phone number utilities *)

\* a string is a sequence of characters; these are the ones inputs are made of
Digits == {"0", "2", "5", "7", "9"}
PhoneChars == Digits \cup {"-"}

\* a character that /\D/ does not match
IsDigit(c) == c \in Digits

\* strings of at most n characters
RECURSIVE Strings(_)
Strings(n) ==
    IF n = 0 THEN {<< >>}
    ELSE LET shorter == Strings(n - 1)
         IN  shorter \cup {Append(str, c) : str \in {x \in shorter : Len(x) = n - 1},
                                             c \in PhoneChars}

\* the value null
NullPhone == <<"null">>

\* cleaned.startsWith(prefix)
startsWith(cleaned, prefix) ==
    /\ Len(cleaned) >= Len(prefix)
    /\ SubSeq(cleaned, 1, Len(prefix)) = prefix

CountryCode == <<"9", "7", "2">>

\* the country code were it added to every number
normalizePhoneNumber_AlwaysAdds(phone) ==
    IF phone = << >> \/ phone = NullPhone THEN NullPhone
    ELSE LET cleaned == SelectSeq(phone, IsDigit)
             national == IF startsWith(cleaned, <<"0">>) THEN Tail(cleaned)
                         ELSE cleaned
         IN  CountryCode \o national

normalizePhoneNumber(phone) ==
    IF phone = << >> \/ phone = NullPhone THEN NullPhone
    ELSE LET cleaned == SelectSeq(phone, IsDigit)
             national == IF startsWith(cleaned, <<"0">>) THEN Tail(cleaned)
                         ELSE cleaned
         IN  IF ~startsWith(national, CountryCode) THEN CountryCode \o national
             ELSE national

\* normalizePhoneNumber is applied to the phone number, then to its own result
Normalize ==
    /\ Len(phoneRet) < 2
    /\ phoneRet' = Append(phoneRet,
                          normalizePhoneNumber(IF phoneRet = << >> THEN phoneArg
                                               ELSE phoneRet[Len(phoneRet)]))
    /\ UNCHANGED <<phoneArg, notPhone>>

PhoneInit ==
    /\ ExtIdle
    /\ OtpIdle
    /\ RlIdle
    /\ RemIdle
    /\ LegIdle
    /\ InfoIdle
    /\ phoneArg \in Strings(MaxPhoneLen)
    /\ phoneRet = << >>

\* normalizePhoneNumber on every short string
PhoneSpec == PhoneInit /\ [][Normalize]_vars

-----------------------------------------------------------------------------
(* Automated reminders: fixed schedule, local time *)

HourSecs == 60 * 60
DaySecs == 24 * HourSecs

\* format(now, 'yyyy-MM-dd'): the local calendar day
DateStr(t) == t \div DaySecs

\* 'HH:MM' as minutes of the day
HHMM(h, m) == h * 60 + m

\* the branch were a trigger hour itself to count as before the trigger
nextHour_AtTrigger(currentTime60) ==
    IF currentTime60 <= 8 * 60 THEN 8
    ELSE IF currentTime60 <= 18 * 60 THEN 18
    ELSE 8 + 24

\* the branch getNextRunInfo takes; currentTime60 is currentTime * 60
nextHour(currentTime60) ==
    IF currentTime60 < 8 * 60 THEN 8
    ELSE IF currentTime60 < 18 * 60 THEN 18
    ELSE 8 + 24

getNextRunInfo(t) ==
    LET currentHour == (t % DaySecs) \div HourSecs
        currentMinute == (t % HourSecs) \div 60
        next == nextHour(currentHour * 60 + currentMinute)
        runType == IF next = 18 THEN "evening" ELSE "morning"
        midnight == t - (t % DaySecs)
        target == midnight + (next % 24) * HourSecs
                  + (IF next >= 24 THEN DaySecs ELSE 0)
    IN  [msUntil |-> (target - t) * 1000, runType |-> runType, target |-> target]

\* scheduleReminders at time t: the timer it arms
NextTimer(t) ==
    [due |-> t + getNextRunInfo(t).msUntil \div 1000,
     runType |-> getNextRunInfo(t).runType]

\* Asia/Jerusalem is UTC+2, and UTC+3 in summer time. A change of offset, if
\* there is one, falls in the night from day 0 to day 1: summer time begins
\* at 02:00 local (00:00 UTC), or ends at 02:00 local (23:00 UTC)
NoChange == [name |-> "none", at |-> 0, before |-> 2 * HourSecs, after |-> 2 * HourSecs]
SummerBegins ==
    [name |-> "begins", at |-> DaySecs, before |-> 2 * HourSecs, after |-> 3 * HourSecs]
SummerEnds ==
    [name |-> "ends", at |-> DaySecs - HourSecs, before |-> 3 * HourSecs,
     after |-> 2 * HourSecs]
Changes == {NoChange, SummerBegins, SummerEnds}

\* getHours, getMinutes: the local wall clock at the instant t
WallClock(t, change) == t + (IF t < change.at THEN change.before ELSE change.after)

\* setHours, setDate, getTime: the instant of a local wall-clock reading; a
\* reading the clock shows twice is taken as the earlier one
InstantOf(w, change) ==
    IF w - change.before < change.at THEN w - change.before ELSE w - change.after

\* getNextRunInfo called at the instant t: msUntil is a difference of instants
RunInfoAt(t, change) ==
    LET info == getNextRunInfo(WallClock(t, change))
        target == InstantOf(info.target, change)
    IN  [now |-> t, change |-> change.name, msUntil |-> (target - t) * 1000,
         runType |-> info.runType, target |-> target]

\* instants getNextRunInfo is called at: the first and last second of the
\* first and last minute of every hour of days 0 and 1 (UTC)
RunInfoTimes ==
    {h * HourSecs + m * 60 + sec : h \in 0..MaxInfoHour, m \in {0, 59}, sec \in {0, 59}}

\* scheduleReminders reads getNextRunInfo
RunInfoCall ==
    /\ \E t \in RunInfoTimes, change \in Changes : runInfo' = RunInfoAt(t, change)
    /\ UNCHANGED notInfo

RunInfoInit ==
    /\ ExtIdle /\ OtpIdle /\ RlIdle /\ PhoneIdle /\ RemIdle /\ LegIdle
    /\ InfoIdle

\* getNextRunInfo at any hour, in any season
RunInfoSpec == RunInfoInit /\ [][RunInfoCall]_vars

\* the windows were the morning one to begin at 12:00
TargetWindow_FromNoon(runType, t) ==
    IF runType = "evening"
    THEN [targetDate |-> DateStr(t + DaySecs), startTime |-> HHMM(7, 0),
          endTime |-> HHMM(12, 0)]
    ELSE [targetDate |-> DateStr(t), startTime |-> HHMM(12, 0),
          endTime |-> HHMM(23, 59)]

\* runReminderJob: the bookings a run of the type made at time t is for
TargetWindow(runType, t) ==
    IF runType = "evening"
    THEN [targetDate |-> DateStr(t + DaySecs), startTime |-> HHMM(7, 0),
          endTime |-> HHMM(12, 0)]
    ELSE [targetDate |-> DateStr(t), startTime |-> HHMM(12, 1),
          endTime |-> HHMM(23, 59)]

\* date and time of a booking are those of the window
InWindow(w, date, time) ==
    /\ date = w.targetDate
    /\ time >= w.startTime
    /\ time <= w.endTime

\* fetchReminderBusinesses: the enabled ones, or none when the query fails
fetchReminderBusinesses(ok) ==
    IF ok THEN SelectSeq(remBusinesses, LAMBDA b : b.reminder_enabled) ELSE << >>

\* fetchBookingsForTimeRange: confirmed, with a phone, in the window
fetchBookingsForTimeRange(ok, businessId, w) ==
    IF ok
    THEN SelectSeq(remBookings,
                   LAMBDA b : /\ b.business_id = businessId
                              /\ b.status = "confirmed"
                              /\ b.client_phone # ""
                              /\ InWindow(w, b.date, b.time))
    ELSE << >>

\* `${booking.id}-${booking.date}`
reminderKey(booking) == <<booking.id, booking.date>>

\* a call to a collaborator succeeds or fails; failures are bounded
RemOutcome(ok) ==
    /\ ok \in BOOLEAN
    /\ (~ok) => remLeft.errors > 0
    /\ remLeft' = [remLeft EXCEPT !.errors = IF ok THEN @ ELSE @ - 1]

\* the set were it cleared at every run
NewDay_Always(todayStr) == TRUE

\* the set were it never cleared
NewDay_Never(todayStr) == FALSE

\* "if (lastCleanupDate !== todayStr)"
NewDay(todayStr) == lastCleanupDate # todayStr

\* runReminderJob(runType) begins at time t: the daily cleanup, the window
StartJob(t, runType, chained) ==
    LET todayStr == DateStr(t)
        w == TargetWindow(runType, t)
    IN  /\ IF NewDay(todayStr)
           THEN /\ sentReminders' = {}
                /\ lastCleanupDate' = todayStr
           ELSE UNCHANGED <<sentReminders, lastCleanupDate>>
        /\ remJob' = [IdleJob EXCEPT !.pc = "businesses",
                                      !.runType = runType,
                                      !.chained = chained,
                                      !.todayStr = todayStr,
                                      !.targetDate = w.targetDate,
                                      !.startTime = w.startTime,
                                      !.endTime = w.endTime]
        /\ remWindows' = Append(remWindows,
                                [runType |-> runType, day |-> todayStr, window |-> w])

\* how late a timer fires, and how long a pass takes, in seconds
RemLate == {0, 2}
RemDurations == {1, 90}

\* the clock stops at the end of the last day
RemEnd == (MaxRemDay + 1) * DaySecs

\* the timer armed by scheduleReminders fires: the callback calls runReminderJob
RemTimerFires ==
    /\ remJob.pc = "idle"
    /\ \E timer \in remTimers, late \in RemLate :
        LET t == (IF timer.due > remNow THEN timer.due ELSE remNow) + late
        IN  /\ t < RemEnd
            /\ remNow' = t
            /\ remTimers' = remTimers \ {timer}
            /\ StartJob(t, timer.runType, TRUE)
    /\ UNCHANGED <<remBusinesses, remBookings, remLeft, remLog, notRem>>

\* runReminderJob: the businesses are fetched
RemBusinesses ==
    /\ remJob.pc = "businesses"
    /\ \E ok \in BOOLEAN :
        /\ RemOutcome(ok)
        /\ remJob' = [remJob EXCEPT !.businesses = fetchReminderBusinesses(ok),
                                     !.pc = "bookings"]
    /\ UNCHANGED <<remNow, remTimers, sentReminders, lastCleanupDate, remBusinesses,
                   remBookings, remWindows, remLog, notRem>>

\* runReminderJob: the bookings of the next business are fetched
RemBookings ==
    /\ remJob.pc = "bookings"
    /\ remJob.businesses # << >>
    /\ \E ok \in BOOLEAN :
        /\ RemOutcome(ok)
        /\ LET business == Head(remJob.businesses)
               found == fetchBookingsForTimeRange(ok, business.id, remJob)
           IN  remJob' = IF found = << >>
                         THEN [remJob EXCEPT !.businesses = Tail(@)]
                         ELSE [remJob EXCEPT !.bookings = found, !.pc = "send"]
    /\ UNCHANGED <<remNow, remTimers, sentReminders, lastCleanupDate, remBusinesses,
                   remBookings, remWindows, remLog, notRem>>

\* the job goes on to the next booking, or to the next business
AfterBooking(job) ==
    IF Tail(job.bookings) = << >>
    THEN [job EXCEPT !.bookings = << >>, !.businesses = Tail(@), !.pc = "bookings"]
    ELSE [job EXCEPT !.bookings = Tail(@)]

\* the loop were a failed send to end the pass
AfterSend_StopOnFailure(job, sent) ==
    IF sent THEN AfterBooking([job EXCEPT !.totalSent = @ + 1])
    ELSE [job EXCEPT !.bookings = << >>, !.businesses = << >>, !.pc = "bookings"]

\* "if (sent) totalSent++", and the loop goes on, whatever was returned
AfterSend(job, sent) ==
    AfterBooking(IF sent THEN [job EXCEPT !.totalSent = @ + 1] ELSE job)

\* sendBookingReminder for the next booking
RemSend ==
    /\ remJob.pc = "send"
    /\ LET booking == Head(remJob.bookings)
       IN  IF reminderKey(booking) \in sentReminders
           THEN /\ remJob' = AfterSend(remJob, FALSE)
                /\ UNCHANGED <<sentReminders, remLeft, remLog>>
           ELSE \E ok \in BOOLEAN :
                /\ RemOutcome(ok)
                /\ remLog' = Append(remLog, [id |-> booking.id, date |-> booking.date,
                                             ok |-> ok, day |-> DateStr(remNow),
                                             pass |-> Len(remWindows)])
                /\ sentReminders' = IF ok THEN sentReminders \cup {reminderKey(booking)}
                                    ELSE sentReminders
                /\ remJob' = AfterSend(remJob, ok)
    /\ UNCHANGED <<remNow, remTimers, lastCleanupDate, remBusinesses, remBookings,
                   remWindows, notRem>>

\* the callback were it to call scheduleReminders only after a pass that sent
Rearmed_AfterSendsOnly(job, t) ==
    IF job.chained /\ job.totalSent > 0 THEN {NextTimer(t)} ELSE {}

\* the callback were it to call scheduleReminders before the job and after it
Rearmed_Twice(job, t) ==
    IF job.chained THEN {NextTimer(t), NextTimer(t + DaySecs \div 2)} ELSE {}

\* "await runReminderJob(runType); scheduleReminders();" in the timer callback:
\* the timers armed when the job returns at time t
Rearmed(job, t) == IF job.chained THEN {NextTimer(t)} ELSE {}

\* the job ends; the timer callback then calls scheduleReminders
RemFinish ==
    /\ remJob.pc = "bookings"
    /\ remJob.businesses = << >>
    /\ \E dur \in RemDurations :
        /\ remNow' = remNow + dur
        /\ remTimers' = remTimers \cup Rearmed(remJob, remNow + dur)
    /\ remJob' = IdleJob
    /\ UNCHANGED <<sentReminders, lastCleanupDate, remBusinesses, remBookings, remLeft,
                   remWindows, remLog, notRem>>

\* runReminderJob is called directly, outside the schedule
RemCall ==
    /\ remJob.pc = "idle"
    /\ remLeft.calls > 0
    /\ remLeft' = [remLeft EXCEPT !.calls = @ - 1]
    /\ \E runType \in {"morning", "evening"} : StartJob(remNow, runType, FALSE)
    /\ UNCHANGED <<remNow, remTimers, remBusinesses, remBookings, remLog, notRem>>

\* a day passes between two direct calls
RemWait ==
    /\ remJob.pc = "idle"
    /\ remWindows # << >>
    /\ remNow + DaySecs < RemEnd
    /\ remNow' = remNow + DaySecs
    /\ UNCHANGED <<remTimers, remJob, sentReminders, lastCleanupDate, remBusinesses,
                   remBookings, remLeft, remWindows, remLog, notRem>>

\* local times the service is started at, on day 0
StartTimes ==
    {0, 7 * HourSecs + 59 * 60 + 59, 8 * HourSecs, 8 * HourSecs + 1,
     12 * HourSecs + 30 * 60, 17 * HourSecs + 59 * 60 + 59, 18 * HourSecs,
     23 * HourSecs + 59 * 60 + 59}

\* times of day of the bookings in the table
BookingTimes ==
    {HHMM(0, 0), HHMM(6, 59), HHMM(7, 0), HHMM(12, 0), HHMM(12, 1), HHMM(23, 59)}

\* times of day of the bookings made while the service runs
BookTimes == {HHMM(12, 0), HHMM(12, 1)}

\* the tables: two businesses, and two bookings for the same slot, at one
\* business or at each; history: made is the number of passes that had ended
\* when the row was inserted
RemDataWith(times) ==
    /\ \E enabled \in BOOLEAN :
        remBusinesses = <<[id |-> 1, name |-> "A", reminder_enabled |-> TRUE],
                          [id |-> 2, name |-> "B", reminder_enabled |-> enabled]>>
    /\ \E date \in 1..MaxRemDay, time \in times,
          status \in {"confirmed", "cancelled"}, businessId \in {1, 2} :
        remBookings = <<[id |-> 1, business_id |-> 1, date |-> date, time |-> time,
                         status |-> "confirmed", client_phone |-> "972501234567",
                         made |-> 0],
                        [id |-> 2, business_id |-> businessId, date |-> date, time |-> time,
                         status |-> status, client_phone |-> "972501234567",
                         made |-> 0]>>

RemData == RemDataWith(BookingTimes)

\* after app.listen: the first timer is armed
RemInitWith(starts, times) ==
    /\ ExtIdle /\ OtpIdle /\ RlIdle /\ PhoneIdle /\ LegIdle /\ InfoIdle
    /\ remNow \in starts
    /\ remTimers = {NextTimer(remNow)}
    /\ remJob = IdleJob
    /\ sentReminders = {}
    /\ lastCleanupDate = 0 - 1
    /\ RemDataWith(times)
    /\ remLeft = [errors |-> MaxRemErrors, calls |-> 0]
    /\ remWindows = << >>
    /\ remLog = << >>

RemInit == RemInitWith(StartTimes, BookingTimes)

\* the service started just before a trigger, between two, or on one, with
\* bookings at the first minute of each window
RemLiveInit ==
    RemInitWith({7 * HourSecs + 59 * 60 + 59, 12 * HourSecs + 30 * 60, 18 * HourSecs},
                {HHMM(7, 0), HHMM(12, 1)})

\* runReminderJob called any number of times, at any hour
RemCallInit ==
    /\ ExtIdle /\ OtpIdle /\ RlIdle /\ PhoneIdle /\ LegIdle /\ InfoIdle
    /\ remNow \in {8 * HourSecs, 18 * HourSecs}
    /\ remTimers = {}
    /\ remJob = IdleJob
    /\ sentReminders = {}
    /\ lastCleanupDate = 0 - 1
    /\ RemData
    /\ remLeft = [errors |-> MaxRemErrors, calls |-> MaxRemCalls]
    /\ remWindows = << >>
    /\ remLog = << >>

\* a client books while the service runs: a confirmed row is inserted, for
\* the day of the bookings there are
RemBook ==
    /\ Len(remBookings) < MaxRemBookings
    /\ remWindows # << >>
    /\ \E date \in {remBookings[1].date}, time \in BookTimes :
        remBookings' =
            Append(remBookings,
                   [id |-> Len(remBookings) + 1, business_id |-> 1, date |-> date,
                    time |-> time, status |-> "confirmed",
                    client_phone |-> "972501234567",
                    made |-> IF remJob.pc = "idle" THEN Len(remWindows)
                             ELSE Len(remWindows) - 1])
    /\ UNCHANGED <<remNow, remTimers, remJob, sentReminders, lastCleanupDate,
                   remBusinesses, remLeft, remWindows, remLog, notRem>>

\* the service started between two triggers, with one booking to remind of,
\* at the last minute of the evening window
RemBookInit ==
    /\ RemInitWith({12 * HourSecs + 30 * 60}, {HHMM(12, 0)})
    /\ ~remBusinesses[2].reminder_enabled
    /\ remBookings[2].status = "cancelled"
    /\ remBookings[2].business_id = 1

RemJobSteps ==
    \/ RemBusinesses
    \/ RemBookings
    \/ RemSend
    \/ RemFinish

\* the reminder scheduler as started by the service
RemSpec == RemInit /\ [][RemTimerFires \/ RemJobSteps]_vars

\* the reminder scheduler while clients book
RemBookSpec == RemBookInit /\ [][RemTimerFires \/ RemJobSteps \/ RemBook]_vars

\* timers fire and awaited calls return
RemFair ==
    /\ WF_vars(RemTimerFires)
    /\ WF_vars(RemBusinesses)
    /\ WF_vars(RemBookings)
    /\ WF_vars(RemSend)
    /\ WF_vars(RemFinish)

\* the reminder scheduler, with timers that fire and calls that return
RemLiveSpec == RemLiveInit /\ [][RemTimerFires \/ RemJobSteps]_vars /\ RemFair

\* runReminderJob under direct calls
RemCallSpec == RemCallInit /\ [][RemCall \/ RemWait \/ RemJobSteps]_vars

\* the awaited calls of a pass return
ExtFair ==
    /\ WF_vars(ExtRule)
    /\ WF_vars(ExtExists)
    /\ WF_vars(ExtInsert)
    /\ WF_vars(ExtUpdate)
    /\ WF_vars(ExtFinish)

\* two rules never extended before, with one error and one exception to come
RulesLiveInit ==
    /\ RulesInit
    /\ errs = MaxErrors
    /\ raises = MaxRaises
    /\ rules[1].last_booking_date = NoDate

\* the extender over two rules, with calls that return or raise
RulesLiveSpec == RulesLiveInit /\ [][ExtNext \/ ExtRaise]_vars /\ ExtFair

-----------------------------------------------------------------------------
(* The 15-minute reminder scheduler (part_000 763-780) *)

QuarterSecs == 15 * 60

\* Math.ceil((minutes + 1) / 15) * 15
nextSlot(minutes) == ((minutes + 1 + 14) \div 15) * 15

\* ((nextSlot - minutes) * 60 * 1000) - (now.getSeconds() * 1000)
msUntilNext(minutes, seconds) ==
    ((nextSlot(minutes) - minutes) * 60 * 1000) - (seconds * 1000)

\* how late a timer of the scheduler fires, in seconds
LegLate == {0, 2}

\* checkAndSendReminders starts at time t
LegCheck(t) ==
    [legacy EXCEPT !.now = t, !.checks = @ + 1, !.prev = legacy.last, !.last = t]

\* a checkAndSendReminders call awaiting fetchBusinesses
NewFlight == [pc |-> "fetch", business |-> << >>, queue |-> << >>, now |-> 0 - 1]

\* the calls in flight after one more check has begun; a check that is to
\* find no business is over as it begins
Begun(r) ==
    IF r.businesses = << >> THEN r
    ELSE [r EXCEPT !.flights = Append(@, NewFlight)]

\* the setTimeout callback: a check, and setInterval is called
LegTimeoutFires ==
    /\ legacy.kind = "timeout"
    /\ legacy.checks < reminders.maxChecks
    /\ \E late \in LegLate :
        LET t == legacy.due + late
        IN  legacy' = [LegCheck(t) EXCEPT !.kind = "interval", !.due = t + QuarterSecs]
    /\ reminders' = Begun(reminders)
    /\ UNCHANGED notLeg

\* the setInterval callback: a check; the timer is re-armed for 15 minutes
\* after the instant it ran at
LegIntervalFires ==
    /\ legacy.kind = "interval"
    /\ legacy.checks < reminders.maxChecks
    /\ \E late \in LegLate :
        LET t == legacy.due + late
        IN  legacy' = [LegCheck(t) EXCEPT !.due = t + QuarterSecs]
    /\ reminders' = Begun(reminders)
    /\ UNCHANGED notLeg

\* business.reminder_hours_before || 12
reminderHours(business) ==
    IF business.reminder_hours_before # 0 THEN business.reminder_hours_before ELSE 12

\* "Send if within +-10 minutes of target reminder time"; minutesUntil is
\* differenceInMinutes(bookingDateTime, now), whole minutes
shouldSend(booking, business, t) ==
    LET minutesUntil == IF booking.at >= t THEN (booking.at - t) \div 60
                        ELSE 0 - ((t - booking.at) \div 60)
        targetMinutes == reminderHours(business) * 60
    IN  minutesUntil >= targetMinutes - 10 /\ minutesUntil <= targetMinutes + 10

\* `${booking.id}-${booking.date}-${booking.time}`
legacyKey(booking) == <<booking.id, booking.date, booking.time>>

\* the lookup were it left out of the loop
AlreadySent_Never(booking, sent) == FALSE

\* "if (sentReminders.has(reminderKey)) continue"
AlreadySent(booking, sent) == legacyKey(booking) \in sent

\* the for loop of processBusinessReminders up to its next send: the
\* bookings left, the first of them the one to send to
RECURSIVE ToSend(_, _, _, _)
ToSend(queue, business, t, sent) ==
    IF queue = << >> THEN << >>
    ELSE IF shouldSend(Head(queue), business, t) /\ ~AlreadySent(Head(queue), sent)
         THEN queue
         ELSE ToSend(Tail(queue), business, t, sent)

\* fetchBookings(business.id): the confirmed bookings of the business
fetchBookings(businessId) ==
    SelectSeq(reminders.bookings,
              LAMBDA b : b.business_id = businessId /\ b.status = "confirmed")

\* the calls in flight with call i gone on from the bookings left of its
\* business; the call is over when none is left (one business in the table)
GoOn(i, flight, queue, sent) ==
    LET rest == ToSend(queue, flight.business, flight.now, sent)
    IN  IF rest = << >>
        THEN [j \in 1..(Len(reminders.flights) - 1) |->
                 reminders.flights[IF j < i THEN j ELSE j + 1]]
        ELSE [reminders.flights EXCEPT ![i] = [flight EXCEPT !.pc = "send",
                                                             !.queue = rest]]

\* fetchBusinesses and fetchBookings have returned to call i:
\* processBusinessReminders reads the clock and runs its loop to the first send
LegFetched(i) ==
    /\ i \in 1..Len(reminders.flights)
    /\ reminders.flights[i].pc = "fetch"
    /\ LET business == Head(reminders.businesses)
           flight == [reminders.flights[i] EXCEPT !.business = business,
                                                  !.now = legacy.now]
       IN  reminders' = [reminders EXCEPT !.flights =
                            GoOn(i, flight, fetchBookings(business.id),
                                 reminders.sentReminders)]
    /\ UNCHANGED <<legacy, notLeg>>

\* sendWhatsAppMessage has returned to call i, or has thrown: the key is added
\* on success, and the loop goes on
LegSent(i) ==
    /\ i \in 1..Len(reminders.flights)
    /\ reminders.flights[i].pc = "send"
    /\ \E ok \in BOOLEAN :
        /\ (~ok) => reminders.errors > 0
        /\ LET flight == reminders.flights[i]
               booking == Head(flight.queue)
               sent == IF ok THEN reminders.sentReminders \cup {legacyKey(booking)}
                       ELSE reminders.sentReminders
           IN  reminders' =
                   [reminders EXCEPT
                       !.sentReminders = sent,
                       !.delivered = IF ok THEN Append(@, legacyKey(booking)) ELSE @,
                       !.errors = IF ok THEN @ ELSE @ - 1,
                       !.flights = GoOn(i, flight, Tail(flight.queue), sent)]
    /\ UNCHANGED <<legacy, notLeg>>

\* minutes and seconds of the wall clock at which the service starts
LegStartMinutes == {0, 7, 14, 15, 29, 44, 45, 59}
LegStartSeconds == {0, 1, 30, 59}

\* scheduleReminders() has run at startup: one check, and the timer for the
\* next 15-minute mark
LegInit ==
    /\ ExtIdle /\ OtpIdle /\ RlIdle /\ PhoneIdle /\ RemIdle /\ InfoIdle
    /\ \E minutes \in LegStartMinutes, seconds \in LegStartSeconds :
        LET t == minutes * 60 + seconds
            due == t + msUntilNext(minutes, seconds) \div 1000
        IN  legacy = [now |-> t, due |-> due, kind |-> "timeout", startup |-> t,
                      firstDue |-> due, checks |-> 1, prev |-> 0 - 1, last |-> t]
    /\ reminders = [NoReminders EXCEPT !.maxChecks = MaxLegacyChecks]

LegacySpec == LegInit /\ [][LegTimeoutFires \/ LegIntervalFires]_vars

\* seconds from startup to the instant a reminder of a booking is due
LegOffsets == {0, 10 * 60, 16 * 60}

\* the service starts a second, or a quarter of an hour, before a 15-minute
\* mark; one business, and two bookings of it, one of them due for its
\* reminder about now; the check made at startup is awaiting its fetch
LegSendInit ==
    /\ ExtIdle /\ OtpIdle /\ RlIdle /\ PhoneIdle /\ RemIdle /\ InfoIdle
    /\ \E minutes \in {0, 14}, seconds \in {0, 59}, hours \in {0, 1},
          offset \in LegOffsets, status \in {"confirmed", "cancelled"} :
        LET t == minutes * 60 + seconds
            due == t + msUntilNext(minutes, seconds) \div 1000
            business == [id |-> 1, name |-> "A", reminder_hours_before |-> hours]
            at == t + reminderHours(business) * 3600 + offset
        IN  /\ legacy = [now |-> t, due |-> due, kind |-> "timeout", startup |-> t,
                         firstDue |-> due, checks |-> 1, prev |-> 0 - 1, last |-> t]
            /\ reminders =
                  [businesses |-> <<business>>,
                   bookings |-> <<[id |-> 1, business_id |-> 1, date |-> 1,
                                   time |-> "10:00", at |-> at, status |-> "confirmed"],
                                  [id |-> 2, business_id |-> 1, date |-> 1,
                                   time |-> "10:00", at |-> at, status |-> status]>>,
                   flights |-> <<NewFlight>>,
                   sentReminders |-> {},
                   delivered |-> << >>,
                   errors |-> MaxLegErrors,
                   maxChecks |-> MaxSendChecks]

\* the 15-minute scheduler with the checks it starts
LegSendSpec ==
    LegSendInit /\ [][\/ LegTimeoutFires
                      \/ LegIntervalFires
                      \/ \E i \in 1..MaxSendChecks : LegFetched(i)
                      \/ \E i \in 1..MaxSendChecks : LegSent(i)]_vars

-----------------------------------------------------------------------------
(* Claims about the extender *)

\* the rule row with the given id
RuleById(id) == rules[CHOOSE i \in 1..Len(rules) : rules[i].id = id]

\* a pass has just ended and nothing has happened since
PassEnded == pass.pc = "idle" /\ passLog # << >>

\* the dates of the bookings the extender created for a rule, in order
CreatedDates(id) ==
    LET made == SelectSeq(bookings, LAMBDA b : b.recurring_appointment_id = id)
    IN  [i \in 1..Len(made) |-> made[i].date]

\* the local calendar day of an instant
LocalDay(t) == LocalTime(t) \div 24

\* C1: when a pass creates at least one booking for a rule, the value it
\* writes to last_booking_date is the date of the latest booking it created
\* for that rule, never a later candidate that was not created.
C1_WriteIsLatestCreated ==
    lastWrite # NoWrite =>
        /\ lastWrite.created # << >>
        /\ lastWrite.value = lastWrite.created[Len(lastWrite.created)]

\* the dates the claim C2 says must hold a booking once a pass has ended: on
\* the rule's day of the week, the whole day after the rule's first starting
\* point and the whole day inside the horizon of the pass that just ended
DueDates(r) ==
    {d \in 0..(ISODate(now) + bookingWindowDays(r.businesses)) :
        /\ d % 7 = r.day_of_week
        /\ ParseDate(d) > origin[r.id] + 24
        /\ ParseDate(d) + 24 <= AddDays(now, bookingWindowDays(r.businesses))}

\* C2: over successive passes without data-store errors or outside changes,
\* no occurrence of a weekly rule inside the horizon is skipped.
C2_NoWeeklyOccurrenceSkipped ==
    PassEnded =>
        \A i \in 1..Len(rules) :
            (rules[i].frequency = "weekly" /\ origin[rules[i].id] # NoDate) =>
                \A d \in DueDates(rules[i]) :
                    bookingExists(TRUE, rules[i].business_id, d, rules[i].time,
                                  rules[i].client_phone)

C4_BiweeklyFourteenApart ==
    \A i \in 1..Len(rules) :
        rules[i].frequency = "biweekly" =>
            LET made == CreatedDates(rules[i].id)
            IN  \A k \in 1..(Len(made) - 1) : made[k + 1] - made[k] = 14

\* C5: every booking date the extender creates for a biweekly rule with a
\* biweekly_start_date is an even number of whole weeks after that date.
C5_BiweeklyParity ==
    \A i \in 1..Len(rules) :
        (rules[i].frequency = "biweekly" /\ rules[i].biweekly_start_date # NoDate) =>
            LET made == CreatedDates(rules[i].id)
            IN  \A k \in 1..Len(made) :
                    ((made[k] - rules[i].biweekly_start_date) \div 7) % 2 = 0

\* C20: a pass that has created no booking for the rule in hand makes no write
\* to the rule: last_booking_date, and the whole row, keep their values.
C20_NoWriteWithoutCreation ==
    [][(pass.pc = "update" /\ pass.created = << >>)
            => (rules' = rules /\ lastWrite' = lastWrite)]_vars

\* C20: the update step of a rule was passed with nothing created although a
\* candidate was inside the horizon: it existed, or its creation failed
C20_Witness ==
    /\ pass.pc = "rule"
    /\ pass.created = << >>
    /\ pass.firstDate <= pass.maxDate
    /\ pass.currentDate > pass.maxDate
    /\ lastWrite = NoWrite

\* C21: an error raised while one rule is processed does not stop the pass:
\* every pass visits all the rules it fetched and reports its created total.
C21_ErrorDoesNotStopPass ==
    \A i \in 1..Len(passLog) : passLog[i].reported /\ passLog[i].skipped = 0

\* the dates of a sequence of date strings
Dates(seq) == {seq[i] : i \in 1..Len(seq)}

\* C23: a candidate whose existence check returned an error gets no booking
\* in that pass, and the pass has gone on to a later candidate.
C23_UnknownCountsAsExists ==
    pass.pc \in {"exists", "insert", "update"} =>
    \A d \in Dates(pass.unknown) :
        /\ d \notin Dates(pass.created)
        /\ d < ISODate(pass.currentDate)

\* C23: the check of the first candidate returned an error, and the pass
\* created a booking for the next one
C23_Witness ==
    /\ pass.unknown # << >>
    /\ pass.created # << >>
    /\ pass.unknown[1] < pass.created[1]

\* the window as the claim C24 states it: the configured number of days when
\* enforcement is enabled, 90 otherwise
ConfiguredWindow(business) ==
    IF business.booking_window_enabled THEN business.booking_window_days ELSE 90

\* the step creates a booking for the rule in hand, confirmed, referring to
\* the rule, and dated no later than the pass's today plus the given days
CreatesWithin(days) ==
    /\ pass.pc = "insert"
    /\ Len(bookings') = Len(bookings) + 1
    /\ LET made == bookings'[Len(bookings')]
       IN  /\ bookings' = Append(bookings, made)
           /\ made.status = "confirmed"
           /\ made.recurring_appointment_id = Head(pass.queue).id
           /\ made.date <= LocalDay(pass.today) + days

\* C24 as stated: every booking the extender creates is confirmed, refers to
\* its rule, and is dated no later than today + windowDays, windowDays being
\* the configured window when enforcement is enabled and 90 otherwise.
C24_CreatedWithinConfiguredWindow ==
    [][bookings' # bookings
            => CreatesWithin(ConfiguredWindow(Head(pass.queue).businesses))]_vars

\* C24 as amended: the same, windowDays being the configured window when
\* enforcement is enabled and the configured number is not 0 or missing, 30
\* when enforcement is enabled and the number is 0 or missing, and 90 otherwise.
C24_CreatedWithinWindow ==
    [][bookings' # bookings
            => CreatesWithin(bookingWindowDays(Head(pass.queue).businesses))]_vars

\* C24: a booking was created for the last day of a configured window
C24_Witness ==
    \E i \in 1..Len(bookings) :
        /\ bookings[i].recurring_appointment_id = 1
        /\ pass.pc \in {"exists", "update"}
        /\ Head(pass.queue).businesses.booking_window_enabled
        /\ Head(pass.queue).businesses.booking_window_days = 7
        /\ bookings[i].date = LocalDay(pass.today) + 7

\* a pass is working on a weekly rule: getNextOccurrence has been applied to
\* pass.lastBookingDate and has returned pass.firstDate
WeeklyRuleInHand ==
    /\ pass.pc \in {"exists", "insert", "update"}
    /\ Head(pass.queue).frequency = "weekly"

\* C6: for a weekly rule getNextOccurrence returns the first local calendar
\* day strictly after the starting date that falls on day_of_week: 1 to 7
\* days later, and exactly 7 days later, never the starting date itself, when
\* the starting date is on that day of the week.
C6_NextOccurrenceWeekly ==
    WeeklyRuleInHand =>
        LET from == LocalDay(pass.lastBookingDate)
            to == LocalDay(pass.firstDate)
            targetDay == Head(pass.queue).day_of_week
        IN  /\ to > from
            /\ to % 7 = targetDay
            /\ \A d \in (from + 1)..(to - 1) : d % 7 # targetDay
            /\ (from % 7 = targetDay) => (to = from + 7)

\* a weekly rule whose starting date is on its own day of the week
C6_Witness ==
    /\ WeeklyRuleInHand
    /\ LocalDay(pass.lastBookingDate) % 7 = Head(pass.queue).day_of_week
    /\ LocalDay(pass.firstDate) = LocalDay(pass.lastBookingDate) + 7

-----------------------------------------------------------------------------
(* Claims about the OTP store and the password reset *)

\* the verify calls of the log that came with the code of the latest issue
CorrectCalls(log) == {i \in 1..Len(log) : log[i].correct}

\* C7: after an issue with no further issue for the phone, the first verify
\* with the correct code, made before expiresAt and after fewer than 5 failed
\* verifies, returns valid, and every later verify with that code returns the
\* not-found error.  (Stated for calls strictly before expiresAt.)
C7_CorrectCodeSucceedsOnce ==
    \A p \in DOMAIN vlog :
        LET log == vlog[p]
        IN  \A i \in CorrectCalls(log) :
                IF \A j \in CorrectCalls(log) : j >= i
                THEN (log[i].early /\ i - 1 < 5)
                        => log[i].result = "valid"
                ELSE log[i].result = "OTP not found or expired"

\* C8 as written: of five verify calls with wrong codes after an issue, the
\* 5th returns the too-many-attempts error
C8_FifthWrongCallIsTooMany ==
    \A p \in DOMAIN vlog :
        LET log == vlog[p]
        IN  (Len(log) >= 5 /\ \A i \in 1..5 : ~log[i].correct)
                => log[5].result = "Too many attempts"

\* C8, amended: a verify call that finds the entry stored and unexpired, with
\* k calls made since the issue: for k < 5 a wrong code returns the invalid-code
\* error and the entry stays; for k = 5 (the 6th call) it returns the
\* too-many-attempts error, whatever the code, and the entry is removed; the
\* call after that one returns the not-found error.
C8_SixthCallIsTooMany ==
    [][\A p \in DOMAIN vlog :
        (Len(vlog'[p]) = Len(vlog[p]) + 1) =>
            LET k == Len(vlog[p])
                call == vlog'[p][k + 1]
                live == otpStore[p] # NoEntry /\ clock <= otpStore[p].expiresAt
            IN  /\ (live /\ k < 5 /\ ~call.correct) =>
                        /\ call.result = "Invalid OTP"
                        /\ otpStore'[p] # NoEntry
                /\ (live /\ k = 5) =>
                        /\ call.result = "Too many attempts"
                        /\ otpStore'[p] = NoEntry
                /\ call.result = "Too many attempts" => live /\ k = 5
                /\ (k > 0 /\ vlog[p][k].result = "Too many attempts") =>
                        call.result = "OTP not found or expired"]_vars

\* C8: five wrong calls, the too-many-attempts error on the 6th, and a 7th call
C8_Witness ==
    \E p \in DOMAIN vlog :
        /\ Len(vlog[p]) = 7
        /\ \A i \in 1..5 : ~vlog[p][i].correct /\ vlog[p][i].result = "Invalid OTP"
        /\ vlog[p][6].result = "Too many attempts"
        /\ vlog[p][7].result = "OTP not found or expired"

\* C9: the entry stored by the latest issue for a phone is in the store until
\* its own expiresAt, unless a successful verify or the attempt limit removed it
C9_LatestEntryLivesUntilExpiry ==
    \A p \in DOMAIN vlog :
        (/\ iss[p] # NoIssue
         /\ clock < iss[p].expiresAt
         /\ \A i \in 1..Len(vlog[p]) :
                vlog[p][i].result \notin {"valid", "Too many attempts"})
        => /\ otpStore[p] # NoEntry
           /\ otpStore[p].code = iss[p].code
           /\ otpStore[p].expiresAt = iss[p].expiresAt

\* C25 as stated: of two verify calls with the correct code that are served
\* one right after the other, no verify having succeeded before, exactly one
\* returns valid and the other returns an error.
C25_ExactlyOneSpends ==
    \A p \in DOMAIN vlog :
        LET log == vlog[p]
        IN  \A i \in 1..(Len(log) - 1) :
                (/\ log[i].correct /\ log[i + 1].correct
                 /\ \A j \in 1..(i - 1) : log[j].result # "valid")
                => /\ log[i].result = "valid" \/ log[i + 1].result = "valid"
                   /\ log[i].result # "valid" \/ log[i + 1].result # "valid"

\* C25 as amended: a verify call with the correct code that finds the entry
\* stored, unexpired and with fewer than 5 attempts returns valid and removes
\* the entry; no other call returns valid, none after a call that did, and
\* the call served right after a valid one returns the not-found error.
C25_OneSpendPerEntry ==
    [][\A p \in DOMAIN vlog :
        (Len(vlog'[p]) = Len(vlog[p]) + 1) =>
            LET k == Len(vlog[p])
                call == vlog'[p][k + 1]
                stored == otpStore[p]
                spendable == /\ stored # NoEntry
                             /\ clock <= stored.expiresAt
                             /\ stored.attempts < MAX_ATTEMPTS
            IN  /\ (spendable /\ call.correct) =>
                        /\ call.result = "valid"
                        /\ otpStore'[p] = NoEntry
                /\ call.result = "valid" =>
                        /\ spendable /\ call.correct
                        /\ \A j \in 1..k : vlog[p][j].result # "valid"
                /\ (k > 0 /\ vlog[p][k].result = "valid") =>
                        call.result = "OTP not found or expired"]_vars

\* C25: two calls with the correct code served one after the other: the first
\* returned valid, the second the not-found error
C25_Witness ==
    \E p \in DOMAIN vlog :
        \E i \in 1..(Len(vlog[p]) - 1) :
            /\ vlog[p][i].correct /\ vlog[p][i + 1].correct
            /\ vlog[p][i].result = "valid"
            /\ vlog[p][i + 1].result = "OTP not found or expired"

\* a verify call that reached "if (stored.code !== code)"
Compared(call) == call.result \in {"Invalid OTP", "valid"}

\* the verify calls, since the entry of the phone was stored, that returned
\* one of the results
CallsWith(p, results) == {i \in 1..Len(vlog[p]) : vlog[p][i].result \in results}

\* the counter of an entry is the number of mismatches against it, at most 5,
\* and at most 5 calls have compared a code with it
AttemptsCounted ==
    \A p \in DOMAIN otpStore :
        /\ otpStore[p].attempts <= MAX_ATTEMPTS
        /\ otpStore[p] # NoEntry
            => otpStore[p].attempts = Cardinality(CallsWith(p, {"Invalid OTP"}))
        /\ Cardinality(CallsWith(p, {"Invalid OTP", "valid"})) <= MAX_ATTEMPTS

\* a verify call compares only against an entry with fewer than 5 attempts,
\* and a mismatch leaves the entry with the counter one higher
AttemptStep ==
    \A p \in DOMAIN vlog :
        (Len(vlog'[p]) = Len(vlog[p]) + 1) =>
            LET call == vlog'[p][Len(vlog[p]) + 1]
                stored == otpStore[p]
            IN  /\ Compared(call)
                    => (stored # NoEntry /\ stored.attempts < MAX_ATTEMPTS)
                /\ call.result = "Invalid OTP"
                    => otpStore'[p] = [stored EXCEPT !.attempts = @ + 1]

\* C30: for one entry the attempts counter never exceeds 5 and at most 5
\* verify calls compare a code with the stored one; a call that compares
\* counts as an attempt, and a mismatch leaves the entry in place with the
\* counter incremented.
C30_AtMostFiveComparisons == []AttemptsCounted /\ [][AttemptStep]_vars

\* C30 witness: five calls mismatched against one entry, and the sixth, with
\* the correct code, was refused without a comparison.
C30_Witness ==
    \E p \in DOMAIN vlog :
        /\ Len(vlog[p]) = MAX_ATTEMPTS + 1
        /\ \A i \in 1..MAX_ATTEMPTS : vlog[p][i].result = "Invalid OTP"
        /\ vlog[p][MAX_ATTEMPTS + 1].correct
        /\ vlog[p][MAX_ATTEMPTS + 1].result = "Too many attempts"

\* a verify call served after the expiry of the code last issued is refused as
\* expired or not found, and no entry is left
ExpiredStep ==
    \A p \in DOMAIN vlog :
        (/\ Len(vlog'[p]) = Len(vlog[p]) + 1
         /\ iss[p] # NoIssue
         /\ clock > iss[p].expiresAt) =>
            LET call == vlog'[p][Len(vlog[p]) + 1]
            IN  /\ call.result = (IF otpStore[p] = NoEntry
                                   THEN "OTP not found or expired" ELSE "OTP expired")
                /\ otpStore'[p] = NoEntry

\* C31: verify never returns valid once the expiresAt of the entry has
\* passed, whether or not the expiry timer has removed it: the result is the
\* expired error, with the entry removed, or the not-found error.
C31_NeverValidAfterExpiry == [][ExpiredStep]_vars

\* C31 witness: the correct code was refused as expired, the timer not having
\* fired, and the next call, again with the correct code, found no entry.
C31_Witness ==
    \E p \in DOMAIN vlog :
        \E i \in 1..(Len(vlog[p]) - 1) :
            /\ vlog[p][i].correct /\ ~vlog[p][i].early
            /\ vlog[p][i].result = "OTP expired"
            /\ vlog[p][i + 1].correct
            /\ vlog[p][i + 1].result = "OTP not found or expired"

\* over one step, a request that passed the check and fails leaves the
\* verifications as they are, and a verification is removed only by a reset
\* that succeeds, by the expiry check of a request, or by the timer armed
\* with it
TicketStep ==
    /\ \A r \in DOMAIN reqs :
            (/\ reqs[r].pc \in {"getUser", "update"}
             /\ reqs'[r].pc = "done"
             /\ reqs'[r].result # "success")
            => verifiedPhones' = verifiedPhones
    /\ \A p \in DOMAIN verifiedPhones :
            (verifiedPhones[p] # NoTicket /\ verifiedPhones'[p] = NoTicket)
            => \/ \E r \in DOMAIN reqs :
                    /\ reqs[r].pc = "update" /\ reqs[r].phone = p
                    /\ reqs'[r].result = "success"
               \/ \E r \in DOMAIN reqs :
                    /\ reqs[r].pc = "new" /\ reqs'[r].phone = p
                    /\ reqs'[r].result = "403 expired"
               \/ verTimers \ verTimers' =
                    {[phone |-> p, due |-> verifiedPhones[p].expiresAt]}

\* C37: a reset request that passes the verification check and then fails
\* (user not found, email mismatch, update error) leaves the verification in
\* place; a verification is removed only by a successful reset, by the
\* expiry check, or by its expiry timer.
C37_TicketSurvivesFailedReset == [][TicketStep]_vars

\* C10: since the latest keepVerified verification of a phone, at most one
\* password reset has succeeded for it
C10_OneResetPerTicket ==
    \A p \in DOMAIN resetsDone : resetsDone[p] <= 1

\* C11: a request passes the verification check, and so may come to the
\* password-update call, only when at the check its phone has a ticket that
\* has not passed its expiresAt; with no ticket or an expired one it is
\* rejected for good without an update, and an expired ticket is removed.
C11_UpdateOnlyWithLiveTicket ==
    [][\A r \in DOMAIN reqs :
        /\ reqs'[r].pc = "update" => reqs[r].pc \in {"getUser", "update"}
        /\ reqs[r].pc = "done" => reqs'[r] = reqs[r]
        /\ (reqs[r].pc = "new" /\ reqs'[r].pc # "new") =>
              LET ticket == verifiedPhones[reqs'[r].phone]
              IN  IF ticket = NoTicket
                  THEN /\ reqs'[r].pc = "done"
                       /\ reqs'[r].result = "403 not verified"
                       /\ verifiedPhones' = verifiedPhones
                  ELSE IF clock > ticket.expiresAt
                  THEN /\ reqs'[r].pc = "done"
                       /\ reqs'[r].result = "403 expired"
                       /\ verifiedPhones'[reqs'[r].phone] = NoTicket
                  ELSE reqs'[r].pc = "getUser"]_vars

\* C11: one request rejected for an expired ticket, which is removed, and one
\* that passed the check while the ticket was live and updated the password
C11_Witness ==
    \E r1, r2 \in DOMAIN reqs :
        /\ reqs[r1].result = "403 expired"
        /\ verifiedPhones[reqs[r1].phone] = NoTicket
        /\ reqs[r2].result = "success"

\* the result of the verify call a step has just made for the phone
LastResult(p) == vlog'[p][Len(vlog'[p])].result

\* C12: a verify with keepVerified false, and a verify that fails, leave the
\* verified phones as they are; a phone's entry is set only by a successful
\* verify of that phone with keepVerified true.
C12_TicketOnlyFromKeepVerified ==
    [][/\ \A p \in DOMAIN vlog, c \in Codes :
            /\ VerifyOTP(p, c, FALSE) => verifiedPhones' = verifiedPhones
            /\ (VerifyOTP(p, c, TRUE) /\ LastResult(p) # "valid")
                    => verifiedPhones' = verifiedPhones
       /\ \A p \in DOMAIN verifiedPhones :
            (verifiedPhones'[p] # verifiedPhones[p] /\ verifiedPhones'[p] # NoTicket)
                => /\ \E c \in Codes : VerifyOTP(p, c, TRUE)
                   /\ LastResult(p) = "valid"]_vars

\* C12: a verify has just succeeded, and the phone has no ticket
C12_Witness ==
    \E p \in DOMAIN vlog :
        /\ clock = 0
        /\ vlog[p] # << >>
        /\ vlog[p][Len(vlog[p])].result = "valid"
        /\ verifiedPhones[p] = NoTicket

-----------------------------------------------------------------------------
(* Claims about the rate limiter *)

\* the ceiling of the class a key belongs to
Ceiling(key) == RlConfig(key[1]).maxRequests

\* C13: for one key and one window, the calls up to the ceiling of the class
\* are allowed and every further call in that window is denied.
C13_FirstCeilingCallsAllowed ==
    \A key \in DOMAIN rlHist :
        rlHist[key].calls > 0 =>
            (rlHist[key].answer.status = "next" <=> rlHist[key].calls <= Ceiling(key))

\* C13: in one window a key has had a call denied, then another one
C13_Witness ==
    \E key \in DOMAIN rlHist :
        /\ rlHist[key].calls = Ceiling(key) + 2
        /\ rlHist[key].answer.status = "429"

\* C14: a denied call reports a retryAfter of at least 1 second and at most the
\* length of the window in seconds.
C14_RetryAfterPositive ==
    \A key \in DOMAIN rlHist :
        rlHist[key].answer.status = "429" =>
            /\ rlHist[key].answer.retryAfter >= 1
            /\ rlHist[key].answer.retryAfter * 1000 <= RlConfig(key[1]).windowMs

\* the step is a call of rateLimit for the key
RlCalled(key) == rlLeft'.calls[key[1]] = rlLeft.calls[key[1]] - 1

\* a call within windowMs of the start of the key's window counts in that
\* window; a call after it, or the first call, starts a window at the time
\* of the call with count 1 and is allowed; other steps leave running
\* windows alone
WindowStep ==
    \A key \in DOMAIN rlHist :
        LET seen == rlHist[key]
            windowMs == RlConfig(key[1]).windowMs
            within == seen.calls > 0 /\ rlNow <= seen.start + windowMs
        IN  /\ (RlCalled(key) /\ within)
                => /\ rateLimitStore[key] # NoWindow
                   /\ rateLimitStore[key].windowStart = seen.start
                   /\ rateLimitStore'[key] =
                          [rateLimitStore[key] EXCEPT !.count = seen.calls + 1]
            /\ (RlCalled(key) /\ ~within)
                => /\ rateLimitStore'[key] = [windowStart |-> rlNow,
                                              windowMs |-> windowMs, count |-> 1]
                   /\ rlHist'[key].answer.status = "next"
            /\ (~RlCalled(key) /\ within)
                => rateLimitStore'[key] = rateLimitStore[key]

\* C32: the window of a key, started at t, stays its window until
\* t + windowMs whatever calls arrive in it, allowed or denied, and the first
\* call after t + windowMs starts a window with count 1 and is allowed, also
\* when the window before was exceeded.
C32_FixedWindow == [][WindowStep]_vars

\* C32 witness: a window was exceeded, and the first call after it has been
\* allowed in a window of its own.
C32_Witness ==
    \E key \in DOMAIN rlHist :
        /\ rlHist[key].exceeded
        /\ rlHist[key].calls = 1
        /\ rlHist[key].answer.status = "next"
        /\ rateLimitStore[key].count = 1
        /\ rateLimitStore[key].windowStart = rlNow

\* the entry of a key in a store that is never swept
Unswept(key) ==
    IF rlHist[key].calls = 0 THEN NoWindow
    ELSE [windowStart |-> rlHist[key].start,
          windowMs |-> RlConfig(key[1]).windowMs,
          count |-> rlHist[key].calls]

\* the answer rateLimit gives a call for the key from the entry it finds
AnswerFrom(stored, key) ==
    LET config == RlConfig(key[1])
        isNew == stored = NoWindow \/ rlNow > stored.windowStart + config.windowMs
        windowStart == IF isNew THEN rlNow ELSE stored.windowStart
        count == (IF isNew THEN 0 ELSE stored.count) + 1
    IN  IF count > config.maxRequests
        THEN [status |-> "429",
              retryAfter |-> CeilSeconds(windowStart + config.windowMs - rlNow)]
        ELSE [status |-> "next", retryAfter |-> 0]

\* the store holds, for each key, the entry of the unswept store, or none
\* where that entry's window is over
SweptOnlyElapsed ==
    \A key \in DOMAIN rateLimitStore :
        \/ rateLimitStore[key] = Unswept(key)
        \/ /\ rateLimitStore[key] = NoWindow
           /\ rlNow > Unswept(key).windowStart + Unswept(key).windowMs

\* a call is answered as the unswept store would answer it, and a step that
\* is not a call removes an entry only when its window is over
SweepStep ==
    \A key \in DOMAIN rateLimitStore :
        /\ RlCalled(key) => rlHist'[key].answer = AnswerFrom(Unswept(key), key)
        /\ (~RlCalled(key) /\ rateLimitStore'[key] # rateLimitStore[key])
            => /\ rateLimitStore'[key] = NoWindow
               /\ rlNow > rateLimitStore[key].windowStart + rateLimitStore[key].windowMs

\* C33: the sweep removes only entries whose window is over, and with the
\* sweep run at any moments every call gets the status and the retryAfter it
\* gets from a store that is never swept.
C33_SweepChangesNoAnswer == []SweptOnlyElapsed /\ [][SweepStep]_vars

\* C33 witness: the sweep has removed the entry of one key, its window over,
\* and left the entry of another, at the last instant of its window.
C33_Witness ==
    \E gone, kept \in DOMAIN rateLimitStore :
        /\ rlHist[gone].calls > 0
        /\ rateLimitStore[gone] = NoWindow
        /\ rateLimitStore[kept] # NoWindow
        /\ rlNow = rateLimitStore[kept].windowStart + rateLimitStore[kept].windowMs

-----------------------------------------------------------------------------
(* Claims about normalizePhoneNumber *)

\* C15: for a non-empty input, normalizing the result of normalizePhoneNumber
\* returns it unchanged.
C15_NormalizeIdempotent ==
    (phoneArg # << >> /\ Len(phoneRet) = 2) => phoneRet[2] = phoneRet[1]

\* C15: a number with a trunk prefix and formatting, normalized twice
C15_Witness ==
    /\ Len(phoneRet) = 2
    /\ startsWith(phoneArg, <<"0">>)
    /\ \E i \in 1..Len(phoneArg) : ~IsDigit(phoneArg[i])
    /\ Len(phoneRet[1]) > Len(CountryCode)

\* C16: for an input whose digits are a 0 followed by a national number, the
\* result is 972 followed by the national number, whatever its first digits.
C16_TrunkPrefixReplaced ==
    LET cleaned == SelectSeq(phoneArg, IsDigit)
    IN  (/\ Len(phoneRet) >= 1
         /\ Len(cleaned) >= 2
         /\ cleaned[1] = "0"
         /\ cleaned[2] # "0")
        => phoneRet[1] = CountryCode \o Tail(cleaned)

-----------------------------------------------------------------------------
(* Claims about the reminder scheduler *)

\* C17: the timer armed at a local time before 08:00 is for today 08:00 and a
\* morning run; from 08:00 up to before 18:00 for today 18:00 and an evening
\* run; from 18:00 on for tomorrow 08:00 and a morning run.
C17_NextRunByLocalTime ==
    remJob.pc = "idle" =>
        \A timer \in remTimers :
            LET midnight == DateStr(remNow) * DaySecs
                timeOfDay == remNow - midnight
            IN  IF timeOfDay < 8 * HourSecs
                THEN timer = [due |-> midnight + 8 * HourSecs, runType |-> "morning"]
                ELSE IF timeOfDay < 18 * HourSecs
                THEN timer = [due |-> midnight + 18 * HourSecs, runType |-> "evening"]
                ELSE timer = [due |-> midnight + DaySecs + 8 * HourSecs,
                              runType |-> "morning"]

\* C17: a morning pass has ended within the minute of 08:00, and the timer
\* armed is for the evening
C17_Witness ==
    /\ remJob.pc = "idle"
    /\ remWindows # << >>
    /\ remNow % DaySecs >= 8 * HourSecs
    /\ remNow % DaySecs < 8 * HourSecs + 60
    /\ \E timer \in remTimers : timer.runType = "evening"

\* the passes whose target window holds a booking of the date and time
Covering(date, time) ==
    {i \in 1..Len(remWindows) : InWindow(remWindows[i].window, date, time)}

\* the pass is the run of the type made on the day
IsRun(i, runType, day) ==
    /\ remWindows[i].runType = runType
    /\ remWindows[i].day = day

\* times of day the claim C18 is checked at
ClaimTimes == BookingTimes \cup {HHMM(9, 30), HHMM(11, 59), HHMM(18, 0)}

\* C18: a booking on date D at a time from 07:00 to 23:59 is in the target
\* window of exactly one scheduled pass: the evening pass of D-1 up to 12:00,
\* the morning pass of D from 12:01; before 07:00 it is in no window.
C18_OnePassPerBooking ==
    \A date \in 1..MaxRemDay, time \in ClaimTimes :
        /\ time < HHMM(7, 0) => Covering(date, time) = {}
        /\ \A i \in Covering(date, time) :
                IF time <= HHMM(12, 0) THEN IsRun(i, "evening", date - 1)
                ELSE IsRun(i, "morning", date)
        /\ Cardinality(Covering(date, time)) <= 1
        /\ (/\ time >= HHMM(7, 0)
            /\ remWindows # << >>
            /\ remWindows[1].day < date
            /\ \E i \in 1..Len(remWindows) : IsRun(i, "morning", date))
           => Cardinality(Covering(date, time)) = 1

\* C18: the evening pass of a day and the morning pass of the next have run
C18_Witness ==
    \E date \in 1..MaxRemDay, i, j \in 1..Len(remWindows) :
        /\ IsRun(i, "evening", date - 1)
        /\ IsRun(j, "morning", date)
        /\ Covering(date, HHMM(12, 0)) = {i}
        /\ Covering(date, HHMM(12, 1)) = {j}

\* C19: once a reminder for (bookingId, date) has been sent, no later pass
\* of the same calendar day attempts a send for it.
C19_NoSecondSendSameDay ==
    \A i, j \in 1..Len(remLog) :
        (/\ i < j
         /\ remLog[i].ok
         /\ remLog[i].id = remLog[j].id
         /\ remLog[i].date = remLog[j].date)
        => remLog[i].day # remLog[j].day

\* C19: a reminder was sent, and a later pass of that day, for the same
\* window, has ended
C19_Witness ==
    \E k \in 1..Len(remLog), i, j \in 1..Len(remWindows) :
        /\ remLog[k].ok /\ remLog[k].pass = i
        /\ i < j
        /\ remWindows[j].day = remLog[k].day
        /\ remWindows[j].window = remWindows[i].window
        /\ j < Len(remWindows) \/ remJob.pc = "idle"
        /\ remLeft.errors = MaxRemErrors

\* the pass has ended
PassOver(k) == k < Len(remWindows) \/ remJob.pc = "idle"

\* the bookings a pass is to remind of: confirmed, in its window, at a
\* business with reminders enabled
Eligible(k) ==
    {i \in 1..Len(remBookings) :
        /\ remBookings[i].status = "confirmed"
        /\ InWindow(remWindows[k].window, remBookings[i].date, remBookings[i].time)
        /\ \E j \in 1..Len(remBusinesses) :
                /\ remBusinesses[j].id = remBookings[i].business_id
                /\ remBusinesses[j].reminder_enabled}

\* the sends that failed so far
FailedSends == {e \in 1..Len(remLog) : ~remLog[e].ok}

\* C22: a failed send adds no dedup key and does not stop the pass: the keys
\* in the set are exactly those of the sends that succeeded since it was
\* cleared, and in a pass where a send failed (and no fetch did) every
\* booking of the pass's window is attempted.
C22_FailedSendDoesNotStopPass ==
    /\ sentReminders =
            {reminderKey(remLog[e]) : e \in {x \in 1..Len(remLog) :
                    remLog[x].ok /\ remLog[x].day = lastCleanupDate}}
    /\ remLeft.errors = MaxRemErrors - Cardinality(FailedSends) =>
            \A e \in FailedSends :
                PassOver(remLog[e].pass) =>
                    \A i \in Eligible(remLog[e].pass) :
                        \E x \in 1..Len(remLog) :
                            /\ remLog[x].pass = remLog[e].pass
                            /\ remLog[x].id = remBookings[i].id

\* C22: in a pass that has ended, the send for the first booking failed and
\* the send for the second succeeded; only the second key is in the set
C22_Witness ==
    \E e, x \in 1..Len(remLog) :
        /\ e < x
        /\ remLog[e].pass = remLog[x].pass
        /\ PassOver(remLog[e].pass)
        /\ ~remLog[e].ok /\ remLog[x].ok
        /\ reminderKey(remLog[x]) \in sentReminders
        /\ reminderKey(remLog[e]) \notin sentReminders

\* the instant of the trigger of the type on the day
Trigger(runType, day) ==
    day * DaySecs + (IF runType = "morning" THEN 8 ELSE 18) * HourSecs

\* C26: whatever fails inside a pass, every 08:00 and 18:00 trigger that is
\* still ahead is eventually followed by a pass of its type on its day.
C26_EveryTriggerRuns ==
    \A day \in 0..MaxRemDay, runType \in {"morning", "evening"} :
        [](remNow < Trigger(runType, day)
            => <>(\E i \in 1..Len(remWindows) : IsRun(i, runType, day)))

\* C26: a send failed in a pass, and the pass of the next trigger has run
C26_Witness ==
    \E e \in FailedSends :
        LET k == remLog[e].pass
        IN  /\ k < Len(remWindows)
            /\ remWindows[k + 1].runType # remWindows[k].runType
            /\ remWindows[k + 1].day =
                    remWindows[k].day + (IF remWindows[k].runType = "evening" THEN 1 ELSE 0)

\* two rows of the table that are not cancelled and agree on business,
\* date, time and client phone
SameSlot(i, j) ==
    /\ bookings[i].status # "cancelled" /\ bookings[j].status # "cancelled"
    /\ bookings[i].business_id = bookings[j].business_id
    /\ bookings[i].date = bookings[j].date
    /\ bookings[i].time = bookings[j].time
    /\ bookings[i].client_phone = bookings[j].client_phone

\* C35: the extender never creates two non-cancelled bookings with the same
\* (business, date, time, clientPhone), also when an hourly pass starts while
\* the pass before it is still running.
C35_NoDuplicateBookings ==
    \A i, j \in 1..Len(bookings) :
        (/\ i < j
         /\ bookings[i].recurring_appointment_id # 0
         /\ bookings[j].recurring_appointment_id # 0)
        => ~SameSlot(i, j)

\* the pass writes last_booking_date of the rule it is processing
Writes == pass.pc = "update" /\ lastWrite' # lastWrite

\* a write stores a date later than the one the pass fetched with the rule,
\* and no stored date is replaced by an earlier one
WriteStep ==
    /\ Writes =>
            LET before == Head(pass.queue).last_booking_date
            IN  before # NoDate => lastWrite'.value > before
    /\ \A i \in 1..Len(rules) :
            rules[i].last_booking_date # NoDate
                => rules'[i].last_booking_date >= rules[i].last_booking_date

\* C38: a rule's last_booking_date never decreases: every write to it stores
\* a date strictly later than the value it had before the pass that writes.
C38_LastBookingDateOnlyGrows == [][WriteStep]_vars

\* the change of offset of the season the call was made in
ChangeOf(info) == CHOOSE change \in Changes : change.name = info.change

\* the local wall-clock readings of the triggers: 08:00 and 18:00 of each day
Triggers == {day * DaySecs + h * HourSecs : day \in 0..3, h \in {8, 18}}

FourteenHoursMs == 14 * HourSecs * 1000

\* C39 as stated: the delay getNextRunInfo computes is strictly positive and
\* at most 14 hours, at every local time of day.
C39_DelayPositiveAtMost14Hours ==
    runInfo # NoRunInfo
        => runInfo.msUntil > 0 /\ runInfo.msUntil <= FourteenHoursMs

\* C39, amended: the delay is strictly positive and ends at the first 08:00 or
\* 18:00 local after the call, at most 14 hours later on the wall clock; the
\* time that elapses is at most 14 hours, except across the end of summer time,
\* where it is at most 15 hours.
C39_DelayToNextTrigger ==
    runInfo # NoRunInfo =>
        LET change == ChangeOf(runInfo)
            called == WallClock(runInfo.now, change)
            due == WallClock(runInfo.target, change)
            crossesEnd == /\ change = SummerEnds
                          /\ runInfo.now < change.at
                          /\ runInfo.target >= change.at
        IN  /\ runInfo.msUntil > 0
            /\ due \in Triggers
            /\ ~\E w \in Triggers : called < w /\ w < due
            /\ due - called <= 14 * HourSecs
            /\ runInfo.msUntil <= FourteenHoursMs + (IF crossesEnd THEN HourSecs * 1000 ELSE 0)

\* C39: the call was made at 18:00 local on the eve of the end of summer
\* time, and the delay to 08:00 is 15 hours
C39_Witness ==
    /\ runInfo.change = "ends"
    /\ WallClock(runInfo.now, SummerEnds) = 18 * HourSecs
    /\ runInfo.runType = "morning"
    /\ runInfo.msUntil = 15 * HourSecs * 1000

\* the sends attempted for a row of the bookings table
Attempts(b) ==
    {e \in 1..Len(remLog) :
        remLog[e].id = remBookings[b].id /\ remLog[e].date = remBookings[b].date}

\* C40: under the fixed schedule each (booking, date) is attempted in at most
\* one scheduled pass: a send that failed is not attempted again by a later
\* pass, and a booking inserted after the pass that targets its window has
\* ended is never attempted.
C40_AttemptedInOnePassOnly ==
    \A b \in 1..Len(remBookings) :
        /\ \A e, f \in Attempts(b) : remLog[e].pass = remLog[f].pass
        /\ (\E k \in Covering(remBookings[b].date, remBookings[b].time) :
                k <= remBookings[b].made)
            => Attempts(b) = {}

\* C40: a send failed in a pass, a booking for the window of that pass was
\* inserted after it, and a later pass has ended
C40_Witness ==
    \E e \in FailedSends, b \in 1..Len(remBookings) :
        /\ remLog[e].pass < Len(remWindows)
        /\ PassOver(Len(remWindows))
        /\ remBookings[b].made >= remLog[e].pass
        /\ remBookings[b].made < Len(remWindows)
        /\ remLog[e].pass \in Covering(remBookings[b].date, remBookings[b].time)

\* an iteration of the materialization loop moves the candidate date forward
CandidateMovesForward ==
    (pass.pc \in {"exists", "insert"} /\ pass'.pc \in {"exists", "update"})
        => pass'.currentDate > pass.currentDate

\* a pass that has begun ends
PassTerminates == (pass.pc # "idle") ~> (pass.pc = "idle")

\* a pass that has begun comes to report its total
PassReports ==
    (pass.pc # "idle") ~> (pass.pc = "idle" /\ passLog # << >> /\ passLog[1].reported)

OneTimer ==
    Cardinality(remTimers) = (IF remJob.pc = "idle" THEN 1 ELSE 0)

\* a step takes the pending timer when it starts a pass, arms the next one
\* when it ends a pass, and otherwise leaves the timers alone
TimerStep ==
    /\ (remJob.pc = "idle" /\ remJob'.pc # "idle")
        => (remTimers' = {} /\ Len(remWindows') = Len(remWindows) + 1)
    /\ (remJob.pc # "idle" /\ remJob'.pc = "idle")
        => (remTimers' = {NextTimer(remNow')} /\ remWindows' = remWindows)
    /\ ((remJob.pc = "idle") = (remJob'.pc = "idle"))
        => (remTimers' = remTimers /\ remWindows' = remWindows)

\* C28: at every moment at most one reminder timer is pending, and exactly one
\* whenever no pass is running; a timer firing takes the pending timer and
\* starts one pass, and the end of the pass arms one new timer.
C28_OnePendingTimer == []OneTimer /\ [][TimerStep]_vars

\* C28 witness: two passes have run, each from a timer, and the timer for the
\* third is pending.
C28_Witness ==
    /\ remJob.pc = "idle"
    /\ Len(remWindows) = 2
    /\ remTimers = {NextTimer(remNow)}

\* no pass has run on the local date yet
FirstOfDay(todayStr) == \A i \in 1..Len(remWindows) : remWindows[i].day # todayStr

\* the step is the beginning of a pass
PassStarts == remJob.pc = "idle" /\ remJob'.pc # "idle"

\* the set and the date over one step: cleared and set at the start of the
\* first pass of a date, kept at the start of another, never cleared within
ClearStep ==
    /\ (PassStarts /\ FirstOfDay(DateStr(remNow')))
        => (sentReminders' = {} /\ lastCleanupDate' = DateStr(remNow')
            /\ remLog' = remLog)
    /\ (PassStarts /\ ~FirstOfDay(DateStr(remNow')))
        => (sentReminders' = sentReminders /\ lastCleanupDate' = lastCleanupDate)
    /\ (~PassStarts)
        => (sentReminders \subseteq sentReminders'
            /\ lastCleanupDate' = lastCleanupDate)

\* C29: a pass that is the first to run on a new local date empties the
\* dedup set and sets the last-cleared date at its start, before any send of
\* it; a pass that is not leaves both as they are, and no step within a pass
\* clears the set.
C29_ClearedOnFirstPassOfDay == [][ClearStep]_vars

\* C29 witness: a reminder was sent in a pass, and the next pass, the first
\* of the following day, has begun with the set emptied and no send yet.
C29_Witness ==
    /\ Len(remWindows) = 2
    /\ remWindows[2].day # remWindows[1].day
    /\ remLog # << >>
    /\ \A k \in 1..Len(remLog) : remLog[k].ok /\ remLog[k].pass = 1
    /\ remJob.pc = "businesses"
    /\ sentReminders = {}
    /\ lastCleanupDate = remWindows[2].day

\* C36: in the 15-minute scheduler no booking is delivered more than one
\* reminder for the same (bookingId, date, time), also when a check starts
\* while an earlier one is still awaiting its fetches or sends.
C36_OneReminderPerKey ==
    \A i, j \in 1..Len(reminders.delivered) :
        i < j => reminders.delivered[i] # reminders.delivered[j]

\* the minute of the hour an instant falls in
MinuteOf(t) == (t \div 60) % 60

\* C27: after the check at startup every check starts in a minute :00, :15,
\* :30 or :45, consecutive ones 15 minutes apart, and the first of them is
\* armed for more than 0 and at most 15 minutes after startup.
C27_ChecksOnQuarterHours ==
    /\ legacy.firstDue - legacy.startup > 0
    /\ legacy.firstDue - legacy.startup <= QuarterSecs
    /\ legacy.checks >= 2 => MinuteOf(legacy.last) % 15 = 0
    /\ legacy.checks >= 3 => legacy.last \div 60 - legacy.prev \div 60 = 15

====
